---- MODULE Spec2Model ----
(***************************************************************************)
(* Verification model of better-dtek.                                      *)
(*                                                                         *)
(* Part 1 (Spec): the per-region Session/Cache facade (DtekService)        *)
(* together with the parts of the upstream client, the template parser and *)
(* the TTL cache that decide its behaviour.                                *)
(* Part 2 (RegistrySpec): the registry of facades, one per region.         *)
(* Part 3 (RetrySpec): withRetry.                                          *)
(* Part 4 (CompressSpec): compressDaySchedule.                             *)
(* Part 5 (EvalSpec): evalAst, the evaluator of literals.                  *)
(* Part 6 (ParseSpec): parseTemplate on pages given in detail.             *)
(* Part 7 (JarSpec): CookieJar and the cookie headers of status queries.   *)
(* Part 8 (BoundarySpec): the status code a route answers a failure with.  *)
(* Part 9 (StoreSpec): addressStatusStore of the browser.                  *)
(* Part 10 (CitiesSpec): citiesStore of the browser.                       *)
(* Part 11 (AwaitSpec): the session of DtekService at the grain of await:  *)
(* the continuation of `await this.ensureSession()` is a microtask of its  *)
(* own, also when ensureSession returned without a network call.           *)
(* Each part has its own variables and its own next-state relation; the    *)
(* variables of the other parts stay as they start.                        *)
(*                                                                         *)
(* Execution model: JavaScript runs every callback to completion.  The     *)
(* only suspension points of the facade are the two upstream calls         *)
(* (fetchTemplate, fetchBuildingStatuses).  One action of the model is     *)
(* therefore everything that runs between two suspension points: the       *)
(* synchronous prefix of an operation up to its first network call, or the *)
(* whole promise-reaction chain that runs when a network call settles      *)
(* (for a settled refresh: refreshSessionInternal's tail, the `finally` of *)
(* the initiating ensureSession, and the continuation of every operation   *)
(* that awaits the shared promise, each up to its next network call).      *)
(***************************************************************************)
EXTENDS Integers, Sequences, FiniteSets, TLC

VARIABLES
    now,                    \* Date.now()
    session,                \* DtekService.session: <<>> (null) or <<SessionState>>
    sessionExpiresAt,       \* DtekService.sessionExpiresAt
    sessionRefreshPromise,  \* DtekService.sessionRefreshPromise: "null" / "pending"
    statusCache,            \* TtlCache.cache: Map key -> [data, expiresAt]
    jars,                   \* heap of CookieJar objects, indexed by the fetch that created them
    fetching,               \* directory-page fetches in flight (ids of fetchTemplate calls)
    fetchCount,             \* number of directory-page fetches issued (fetchTemplate calls)
    refreshOutcome,         \* how the latest settled refresh ended: "none", "ok", "err", "throw"
    pc,                     \* per caller: "idle", the call it is suspended in, or "done"
    req,                    \* per caller: the operation and its arguments
    sent,                   \* per caller: credentials of its in-flight status query
    result,                 \* per caller: <<>> or <<what the operation just settled with>>
    cacheHit,               \* per caller: whether that result was served from statusCache
    serviceRegistry,        \* the registry Map: region code -> <<>> or <<index into services>>
    services,               \* the DtekService objects created so far, in creation order
    regionOfCall,           \* the region the latest call named ("" before the first call)
    delays,                 \* withRetry: options.delays
    onRetry,                \* withRetry: the observer: "none", "returns" or "throws"
    retry,                  \* withRetry: its locals, its position and what it settled with
    outcomes,               \* withRetry: how each invocation of fn settled, in order
    log,                    \* withRetry: the calls it made (fn, onRetry, sleep), in order
    dayData,                \* compressDaySchedule: the hour keys read so far and their codes
    hourKey,                \* compressDaySchedule: the loop variable
    ranges,                 \* compressDaySchedule: the list of ranges
    node,                   \* evalAst: <<>> or <<the tree it is called with>>
    frames,                 \* evalAst: the calls in progress, the outermost first
    evaluated,              \* evalAst: <<>> or <<how the call ended>>
    html,                   \* parseTemplate: <<>> or <<the page it is called with>>
    parsed,                 \* parseTemplate: <<>> or <<how the call ended>>
    jarHeap,                \* CookieJar objects by identity: the Map of each
    sessionJar,             \* the jar of the session in place (0: no session)
    query,                  \* <<>> or <<the status query in flight: its jar, its cookie header>>
    exchanges,              \* number of upstream responses received
    response,               \* handleServiceError: <<>> or <<the response of the latest failure>>
    addressCache,           \* addressStatusStore: the Map, address id -> <<>> or <<StatusCacheEntry>>
    inFlight,               \* addressStatusStore: the fetchStatus/refreshStatus calls awaiting the API
    storeNow,               \* Date.now() of the browser
    storeCalls,             \* addressStatusStore: number of operations called so far
    lastCall,               \* addressStatusStore: the latest operation called
    writer,                 \* per address id: the call that wrote its entry last (0: none)
    invalidated,            \* per address id: the calls made before its latest invalidate
    citiesState,            \* citiesStore: the CitiesState
    citiesRequests,         \* citiesStore: the prefetch/refresh calls awaiting fetchCities
    citiesCalls,            \* citiesStore: number of operations called so far
    held,                   \* Part 11, DtekService.session: <<>> or <<the fetch it came from>>
    heldLive,               \* Part 11: Date.now() < DtekService.sessionExpiresAt
    refreshPromise,         \* Part 11, DtekService.sessionRefreshPromise: "null" / "pending"
    issued,                 \* Part 11: number of directory-page fetches issued
    awaiters,               \* Part 11: the operations awaiting the refresh promise, in order
    microtasks,             \* Part 11: the continuations ready to run, in order
    draining,               \* Part 11: the microtasks are being run, no caller's code runs
    stage,                  \* Part 11, per caller: where its operation stands
    called,                 \* Part 11, per caller: the operation it called
    returned                \* Part 11, per caller: <<>> or <<what the operation returned>>

facadeVars == <<now, session, sessionExpiresAt, sessionRefreshPromise, statusCache, jars,
                fetching, fetchCount, refreshOutcome, pc, req, sent, result, cacheHit>>

registryVars == <<serviceRegistry, services, regionOfCall>>

retryVars == <<delays, onRetry, retry, outcomes, log>>

compressVars == <<dayData, hourKey, ranges>>

evalVars == <<node, frames, evaluated>>

parseVars == <<html, parsed>>

jarVars == <<jarHeap, sessionJar, query, exchanges>>

boundaryVars == <<response>>

addressVars == <<addressCache, inFlight, storeNow, storeCalls, lastCall, writer, invalidated>>

citiesVars == <<citiesState, citiesRequests, citiesCalls>>

awaitVars == <<held, heldLive, refreshPromise, issued, awaiters, microtasks, draining, stage,
               called, returned>>

restVars == <<boundaryVars, addressVars, citiesVars, awaitVars>>

vars == <<facadeVars, registryVars, retryVars, compressVars, evalVars, parseVars, jarVars, restVars>>

----------------------------------------------------------------------------
(* Bounds *)

NumCallers == 2
MaxFetches == 2
MaxTicks == 4
NumRegions == 2
MaxDelays == 2
MaxHourKey == 4
MaxNest == 2
MaxExchanges == 2
NumAddresses == 1
MaxStoreCalls == 4
MaxStoreTicks == 3
MaxCitiesCalls == 4

Callers == 1..NumCallers

(* Program constants *)

SESSION_TTL_MS == 60 * 60 * 1000
STATUS_CACHE_TTL_MS == 10 * 60 * 1000

(* The instants of the model clock: 0, 5, 10, 55, 60, 65, ... minutes.     *)
(* Every expiry set at one of them falls on another one or into the        *)
(* stretch between 10 and 55 minutes that the clock skips.                 *)
TickMs == 5 * 60 * 1000

NextInstant(t) == IF t = 2 * TickMs THEN 11 * TickMs ELSE t + TickMs

Instant(i) == IF i <= 2 THEN i * TickMs ELSE (i + 8) * TickMs

MaxNow == Instant(MaxTicks)

(* Request arguments.  City and street are arbitrary non-empty strings     *)
(* taken from the query string (statusQuerySchema).                        *)
Cities == {"a"}
Pairs == {<<"a", "c">>, <<"a", "b:c">>, <<"a:b", "c">>}

----------------------------------------------------------------------------
(* Result values *)

NoValue == [tag |-> "none", origin |-> 0, city |-> "", street |-> ""]

Ok(v) == [kind |-> "ok", code |-> "", detail |-> "", httpStatus |-> 0, value |-> v]

Err(code, detail, httpStatus) ==
    [kind |-> "err", code |-> code, detail |-> detail, httpStatus |-> httpStatus,
     value |-> NoValue]

(* An exception propagating out of an async function: a rejected promise. *)
Thrown(what) ==
    [kind |-> "throw", code |-> what, detail |-> "", httpStatus |-> 0, value |-> NoValue]

networkError(httpStatus) == Err("NETWORK_ERROR", "", httpStatus)
parseError(parseType) == Err("PARSE_ERROR", parseType, 0)
sessionError(reason) == Err("SESSION_ERROR", reason, 0)
regionUnavailableError == Err("REGION_UNAVAILABLE", "", 0)

Value(tag, origin, city, street) ==
    [tag |-> tag, origin |-> origin, city |-> city, street |-> street]

Void == Value("void", 0, "", "")

----------------------------------------------------------------------------
(* The directory page, as far as parseTemplate looks at it.  `token` names  *)
(* the response the page came with: its anti-forgery token and its          *)
(* freshness timestamp are the ones of that response.                       *)

StreetsForms == {"ok", "missing", "nonliteral", "wrongshape"}
FactForms == {"ok", "missing", "noupdate"}
PresetForms == {"ok", "nullweek"}

GoodDoc(k) ==
    [token |-> k, csrfTag |-> TRUE, botMarker |-> FALSE,
     streets |-> "ok", fact |-> "ok", preset |-> "ok"]

(* the pages the upstream is taken to serve: the good page, the pages that *)
(* differ from it in one respect (for the preset: the table with a null    *)
(* week), and the bot page without a tag                                   *)
Docs(k) ==
    {[GoodDoc(k) EXCEPT !.preset = x] : x \in PresetForms}
        \cup {[GoodDoc(k) EXCEPT !.streets = x] : x \in StreetsForms}
        \cup {[GoodDoc(k) EXCEPT !.fact = x] : x \in FactForms}
        \cup {[GoodDoc(k) EXCEPT !.csrfTag = FALSE, !.botMarker = x] : x \in BOOLEAN}
        \cup {[GoodDoc(k) EXCEPT !.botMarker = TRUE]}

(* extractCsrfMeta *)
extractCsrfMeta(d) ==
    IF ~d.csrfTag
    THEN IF d.botMarker THEN regionUnavailableError ELSE parseError("csrf")
    ELSE Ok(Value("csrf", d.token, "", ""))

(* extractDisconScheduleData: the checks in the order of the code; an      *)
(* exception of evalAst on the streets literal is caught and converted.    *)
extractDisconScheduleData(d) ==
    IF d.streets = "missing" THEN parseError("discon_streets")
    ELSE IF d.fact = "missing" THEN parseError("discon_fact")
    ELSE IF d.fact = "noupdate" THEN parseError("discon_fact")
    ELSE IF d.streets = "nonliteral" THEN parseError("template")
    ELSE Ok(Value("streets", d.token, "", ""))

(* extractPresetData: TRUE when it returns a raw preset, FALSE for null.   *)
(* Every exception inside it is caught; a preset whose `data` is an object *)
(* is returned whatever `data` holds.                                      *)
extractPresetData(d) == d.preset \in {"ok", "nullweek"}

(* processPresetSchedules: Object.entries(weekData) on a null week raises  *)
(* a TypeError; nothing around the call catches it.                        *)
processPresetSchedulesThrows(d) == d.preset = "nullweek"

(* dtekTemplateDataSchema.safeParse *)
templateDataValid(d) == d.streets # "wrongshape"

(* parseTemplate: the Result it returns, or the exception it raises. *)
parseTemplate(d) ==
    IF extractCsrfMeta(d).kind # "ok" THEN extractCsrfMeta(d)
    ELSE IF extractDisconScheduleData(d).kind # "ok" THEN extractDisconScheduleData(d)
    ELSE IF extractPresetData(d) /\ processPresetSchedulesThrows(d) THEN Thrown("TypeError")
    ELSE IF ~templateDataValid(d) THEN parseError("template")
    ELSE Ok(Value("template", d.token, "", ""))

(* The templateData of a successful parse. *)
templateDataOf(d) ==
    [origin |-> d.token, csrf |-> d.token, updateFact |-> d.token,
     schedules |-> extractPresetData(d)]

----------------------------------------------------------------------------
(* fetchTemplate: the response of the directory page.  status 0 stands for *)
(* a fetch that rejects (connection failure).                              *)

TemplateStatuses == {0, 200, 500}

TemplateResponses(k) ==
    {[status |-> st, doc |-> GoodDoc(k)] : st \in TemplateStatuses \ {200}}
        \cup {[status |-> 200, doc |-> d] : d \in Docs(k)}

fetchTemplate(resp) ==
    IF resp.status = 0 THEN networkError(0)
    ELSE IF resp.status # 200 THEN networkError(resp.status)
    ELSE Ok(Value("html", resp.doc.token, "", ""))

----------------------------------------------------------------------------
(* TtlCache *)

CacheKey(city, street) == city \o ":" \o street

Keys == {CacheKey(p[1], p[2]) : p \in Pairs}

(* The Map of the cache: cache[key] is <<>> when the Map has no entry for   *)
(* key and <<entry>> when it has one.                                       *)
EmptyCache == [k \in Keys |-> <<>>]

CacheLive_NeedsSession(cache, key, t) ==
    /\ cache[key] # <<>>
    /\ ~(t >= cache[key][1].expiresAt)
    /\ session # <<>>
    /\ t < sessionExpiresAt

CacheLive_Late(cache, key, t) ==
    /\ cache[key] # <<>>
    /\ ~(t > cache[key][1].expiresAt)

(* TtlCache.get returns an entry (non-null) *)
CacheLive(cache, key, t) ==
    /\ cache[key] # <<>>
    /\ ~(t >= cache[key][1].expiresAt)

(* the Map after TtlCache.get: an expired entry is deleted *)
CacheAfterGet(cache, key, t) ==
    IF cache[key] # <<>> /\ t >= cache[key][1].expiresAt
    THEN [cache EXCEPT ![key] = <<>>]
    ELSE cache

(* the Map after TtlCache.set with the default TTL *)
CacheAfterSet(cache, key, value, t) ==
    [cache EXCEPT ![key] = <<[data |-> value, expiresAt |-> t + STATUS_CACHE_TTL_MS]>>]

----------------------------------------------------------------------------
(* DtekService: session state *)

(* the pair (this.session, this.sessionExpiresAt) *)
Store(sess, expiresAt) == [session |-> sess, expiresAt |-> expiresAt]

Current == Store(session, sessionExpiresAt)

(* clearSession *)
clearSession == Store(<<>>, 0)

SessionValid_Inclusive(S, t) == S.session # <<>> /\ t <= S.expiresAt

(* ensureSession's fast-path test *)
SessionValid(S, t) == S.session # <<>> /\ t < S.expiresAt

Installed_KeepsJar(S, data, jar, t) ==
    Store(<<[cookies |-> IF S.session # <<>> THEN S.session[1].cookies ELSE jar,
             csrf |-> data.csrf, updateFact |-> data.updateFact,
             templateData |-> [origin |-> data.origin, schedules |-> data.schedules]]>>,
          t + SESSION_TTL_MS)

(* refreshSessionInternal: the assignment that stores the new session *)
Installed(S, data, jar, t) ==
    Store(<<[cookies |-> jar, csrf |-> data.csrf, updateFact |-> data.updateFact,
             templateData |-> [origin |-> data.origin, schedules |-> data.schedules]]>>,
          t + SESSION_TTL_MS)

refreshSessionInternal_KeepsSession(resp, S, t) ==
    LET fetchResult == fetchTemplate(resp)
        parseResult == parseTemplate(resp.doc)
    IN  IF fetchResult.kind # "ok"
        THEN [store |-> S, result |-> fetchResult]
        ELSE IF parseResult.kind # "ok"
        THEN [store |-> S, result |-> parseResult]
        ELSE [store |-> Installed(S, templateDataOf(resp.doc), resp.doc.token, t),
              result |-> Ok(Void)]

(* refreshSessionInternal from the point where fetchTemplate settles with  *)
(* `resp`: the store it leaves and what its promise settles with.  An      *)
(* exception of parseTemplate rejects the promise before any assignment.   *)
refreshSessionInternal(resp, S, t) ==
    LET fetchResult == fetchTemplate(resp)
        parseResult == parseTemplate(resp.doc)
    IN  IF fetchResult.kind # "ok"
        THEN [store |-> clearSession, result |-> fetchResult]
        ELSE IF parseResult.kind = "throw"
        THEN [store |-> S, result |-> parseResult]
        ELSE IF parseResult.kind # "ok"
        THEN [store |-> clearSession, result |-> parseResult]
        ELSE [store |-> Installed(S, templateDataOf(resp.doc), resp.doc.token, t),
              result |-> Ok(Void)]

(* Where an operation stands after `await this.ensureSession()` settled    *)
(* with sessionResult while the store is S: it has returned (pc "done"),   *)
(* or, for getStatus, it has issued its status query with the credentials  *)
(* read from this.session.                                                 *)
Settled(r) == [pc |-> "done", result |-> <<r>>, sent |-> <<>>]

Querying_Coalesced(S) ==
    IF \E d \in DOMAIN pc : pc[d] = "fetchBuildingStatuses"
    THEN [pc |-> "done", result |-> <<sessionError("missing")>>, sent |-> <<>>]
    ELSE [pc |-> "fetchBuildingStatuses", result |-> <<>>,
          sent |-> <<[csrf |-> S.session[1].csrf, updateFact |-> S.session[1].updateFact,
                      cookies |-> S.session[1].cookies]>>]

Querying(S) ==
    [pc |-> "fetchBuildingStatuses", result |-> <<>>,
     sent |-> <<[csrf |-> S.session[1].csrf, updateFact |-> S.session[1].updateFact,
                 cookies |-> S.session[1].cookies]>>]

(* the operation after ensureSession returned ok *)
AfterOk(rq, S) ==
    IF rq.op = "refreshSession" THEN Settled(Ok(Void))
    ELSE IF rq.op = "getSchedules"
    THEN IF S.session = <<>> \/ ~S.session[1].templateData.schedules
         THEN Settled(Ok(Value("schedules", 0, "", "")))
         ELSE Settled(Ok(Value("schedules", S.session[1].templateData.origin, "", "")))
    ELSE IF S.session = <<>> THEN Settled(sessionError("missing"))
    ELSE IF rq.op = "getCities"
    THEN Settled(Ok(Value("cities", S.session[1].templateData.origin, "", "")))
    ELSE IF rq.op = "getStreets"
    THEN Settled(Ok(Value("streets", S.session[1].templateData.origin, rq.city, "")))
    ELSE Querying(S)

AfterEnsureSession_IgnoresFailure(rq, sessionResult, S) == AfterOk(rq, S)

AfterEnsureSession(rq, sessionResult, S) ==
    IF sessionResult.kind # "ok" THEN Settled(sessionResult) ELSE AfterOk(rq, S)

----------------------------------------------------------------------------
(* fetchBuildingStatuses: the response of the status query.  status 0      *)
(* stands for a fetch that rejects.                                        *)

StatusCodes == {0, 200, 401, 403, 500}
Bodies == {"ok", "badjson", "badshape"}

StatusResponses ==
    {r \in [status : StatusCodes, body : Bodies, setCookie : BOOLEAN] :
        /\ (r.status # 200 => r.body = "ok")
        /\ (r.status = 0 => ~r.setCookie)}

(* the payload the upstream returns for the pair it was asked about *)
Payload(city, street) == Value("status", 0, city, street)

fetchBuildingStatuses(rq, resp) ==
    IF resp.status = 0 THEN networkError(0)
    ELSE IF resp.status # 200 THEN networkError(resp.status)
    ELSE IF resp.body = "badjson" THEN parseError("json")
    ELSE IF resp.body = "badshape" THEN parseError("json")
    ELSE Ok(Payload(rq.city, rq.street))

(* cookies.absorb(setCookieHeaders) on the jar the query was given *)
TemplateCookies == {"dtek"}
StatusCookies == {"incap_ses"}

AbsorbStatus(js, jar, resp) ==
    IF resp.status # 0 /\ resp.setCookie
    THEN [js EXCEPT ![jar] = @ \cup StatusCookies]
    ELSE js

(* Jars no longer referenced by the session or by a status query in flight *)
(* are garbage: the heap keeps the reachable ones only.                    *)
Reachable(js, sess, snt) ==
    [k \in DOMAIN js |->
        IF \/ (sess # <<>> /\ sess[1].cookies = k)
           \/ \E c \in DOMAIN snt : snt[c] # <<>> /\ snt[c][1].cookies = k
        THEN js[k] ELSE {}]

isAuthError_Only401(fetchResult) ==
    /\ fetchResult.code = "NETWORK_ERROR"
    /\ fetchResult.httpStatus = 401

(* getStatus: isAuthError *)
isAuthError(fetchResult) ==
    /\ fetchResult.code = "NETWORK_ERROR"
    /\ (fetchResult.httpStatus = 401 \/ fetchResult.httpStatus = 403)

----------------------------------------------------------------------------
(* The service registry: one DtekService per region, created on first use. *)
(* The objects live in `services`; an operation named here is the          *)
(* facade's operation of the same name applied to the fields of one of     *)
(* these objects, at the instant `now`.                                    *)

REGION_CODES == <<"kem", "krem", "oem", "dnem", "dem">>

Regions == {REGION_CODES[i] : i \in 1..NumRegions}

(* new DtekService(region): the fields after the constructor *)
DtekService(region) ==
    [regionCode |-> region, session |-> <<>>, sessionExpiresAt |-> 0,
     sessionRefreshPromise |-> "null", statusCache |-> EmptyCache]

RegistryInit ==
    /\ serviceRegistry = [r \in Regions |-> <<>>]
    /\ services = <<>>
    /\ regionOfCall = ""

getDtekService_OneForAll(region) ==
    IF serviceRegistry[REGION_CODES[1]] # <<>>
    THEN [registry |-> serviceRegistry, objects |-> services,
          service |-> serviceRegistry[REGION_CODES[1]][1]]
    ELSE [registry |-> [serviceRegistry EXCEPT ![REGION_CODES[1]] = <<Len(services) + 1>>],
          objects |-> Append(services, DtekService(REGION_CODES[1])),
          service |-> Len(services) + 1]

(* getDtekService: the registry and the objects after the call, and the    *)
(* object it returns                                                       *)
getDtekService(region) ==
    IF serviceRegistry[region] # <<>>
    THEN [registry |-> serviceRegistry, objects |-> services,
          service |-> serviceRegistry[region][1]]
    ELSE [registry |-> [serviceRegistry EXCEPT ![region] = <<Len(services) + 1>>],
          objects |-> Append(services, DtekService(region)),
          service |-> Len(services) + 1]

(* the pair (session, sessionExpiresAt) of an object *)
StoreOf(this) == Store(this.session, this.sessionExpiresAt)

(* an object with the pair replaced *)
WithStore(this, S) == [this EXCEPT !.session = S.session, !.sessionExpiresAt = S.expiresAt]

(* the object getDtekService(region) returns *)
Receiver(region) ==
    LET got == getDtekService(region) IN got.objects[got.service]

(* a call for `region`: the registry hands out the object, and the call    *)
(* leaves that object as thisAfter                                         *)
Served(region, thisAfter) ==
    LET got == getDtekService(region) IN
    /\ serviceRegistry' = got.registry
    /\ services' = [got.objects EXCEPT ![got.service] = thisAfter]
    /\ regionOfCall' = region
    /\ UNCHANGED <<facadeVars, retryVars, compressVars,
                   evalVars, parseVars, jarVars, restVars>>

(* getDtekService(region).ensureSession(), as any operation begins: the    *)
(* refresh handle is set unless the session is valid                       *)
RegistryEnsureSession(region) ==
    LET this == Receiver(region)
        thisAfter ==
            IF SessionValid(StoreOf(this), now) THEN this
            ELSE [this EXCEPT !.sessionRefreshPromise = "pending"]
    IN  Served(region, thisAfter)

(* getDtekService(region).refreshSession() *)
RegistryRefreshSession(region) ==
    LET this == Receiver(region)
        thisAfter ==
            [WithStore(this, clearSession) EXCEPT !.sessionRefreshPromise = "pending"]
    IN  Served(region, thisAfter)

(* the refresh of the region's object settles with resp *)
RegistryRefreshSettles(region, resp) ==
    LET this == Receiver(region)
        thisAfter ==
            [WithStore(this, refreshSessionInternal(resp, StoreOf(this), now).store)
                EXCEPT !.sessionRefreshPromise = "null"]
    IN  /\ serviceRegistry[region] # <<>>
        /\ services[serviceRegistry[region][1]].sessionRefreshPromise = "pending"
        /\ Served(region, thisAfter)

(* a status query of the region's object settles with resp *)
RegistryStatusSettles(region, city, street, resp) ==
    LET rq == [op |-> "getStatus", city |-> city, street |-> street]
        fetchResult == fetchBuildingStatuses(rq, resp)
        this == Receiver(region)
        thisAfter ==
            IF fetchResult.kind = "ok"
            THEN [this EXCEPT !.statusCache =
                        CacheAfterSet(@, CacheKey(city, street), fetchResult.value, now)]
            ELSE IF isAuthError(fetchResult) THEN WithStore(this, clearSession)
            ELSE this
    IN  /\ serviceRegistry[region] # <<>>
        /\ services[serviceRegistry[region][1]].session # <<>>
        /\ Served(region, thisAfter)

RegistryCall == \E region \in Regions : RegistryEnsureSession(region)
RegistryForce == \E region \in Regions : RegistryRefreshSession(region)
RegistryRefreshSettle ==
    \E region \in Regions : \E resp \in TemplateResponses(1) :
        RegistryRefreshSettles(region, resp)
RegistryStatusSettle ==
    \E region \in Regions : \E p \in Pairs : \E resp \in StatusResponses :
        RegistryStatusSettles(region, p[1], p[2], resp)

RegistryNext ==
    \/ RegistryCall
    \/ RegistryForce
    \/ RegistryRefreshSettle
    \/ RegistryStatusSettle

----------------------------------------------------------------------------
(* withRetry *)

(* options.delays: lists of at most MaxDelays delays *)
DelayValues == {10, 20}

DelayLists == UNION {[1..n -> DelayValues] : n \in 0..MaxDelays}

(* options.onRetry: absent, an observer that returns, one that throws *)
Observers == {"none", "returns", "throws"}

(* How one invocation of fn settles: with a Result that is ok, with a      *)
(* plain value (null and undefined among them), with a Result that is not  *)
(* ok and carries `error`, or with `error` thrown.                         *)
RetryErrors == {"e1", "e2"}

FnOutcome(kind, value, error) == [kind |-> kind, value |-> value, error |-> error]

FnOutcomes ==
    {FnOutcome("ok", "v", "")}
        \cup {FnOutcome("plain", x, "") : x \in {"v", "null", "undefined"}}
        \cup {FnOutcome("fail", "", e) : e \in RetryErrors}
        \cup {FnOutcome("throw", "", e) : e \in RetryErrors}

(* isResult *)
isResult(o) == o.kind \in {"ok", "fail"}

(* retryError *)
retryError(attempts, lastError) ==
    [code |-> "RETRY_EXHAUSTED", attempts |-> attempts, lastError |-> lastError]

NoRetryError == [code |-> "", attempts |-> 0, lastError |-> ""]

(* the Results withRetry returns *)
RetryOk(value) == [ok |-> TRUE, value |-> value, error |-> NoRetryError]
RetryErr(error) == [ok |-> FALSE, value |-> "", error |-> error]

(* a call withRetry makes: fn(), onRetry(attempt, error, delayMs) or       *)
(* sleep(delayMs), with the loop's `attempt` when it is made               *)
RetryEvent(what, attempt, error, delayMs) ==
    [what |-> what, attempt |-> attempt, error |-> error, delayMs |-> delayMs]

(* withRetry's locals and position: "idle" before the call, "fn" and       *)
(* "sleep" while it awaits the one or the other, "returned" with `result`, *)
(* "threw" when an exception left it                                       *)
RetryState(at, attempt, lastError, settled) ==
    [pc |-> at, attempt |-> attempt, lastError |-> lastError, result |-> settled]

RetryInit ==
    /\ delays = <<>>
    /\ onRetry = "none"
    /\ retry = RetryState("idle", 0, "null", <<>>)
    /\ outcomes = <<>>
    /\ log = <<>>

Succeeded_Truthy(o) ==
    \/ isResult(o) /\ o.kind = "ok"
    \/ ~isResult(o) /\ o.kind = "plain" /\ o.value \notin {"null", "undefined"}

(* the loop body returns: fn gave a Result that is ok, or a value that is  *)
(* no Result                                                               *)
Succeeded(o) ==
    \/ isResult(o) /\ o.kind = "ok"
    \/ ~isResult(o) /\ o.kind = "plain"

ErrorOf_Thrown(r, o) == IF o.kind = "throw" THEN "thrown" ELSE o.error

ErrorOf_First(r, o) == IF r.lastError = "null" THEN o.error ELSE r.lastError

(* the value assigned to lastError: result.error, or the exception caught *)
ErrorOf(r, o) == o.error

Observed_NextAttempt(r, lastError, delayMs, observer) ==
    IF observer = "none" THEN <<>>
    ELSE <<RetryEvent("onRetry", r.attempt + 1, lastError, delayMs)>>

(* options?.onRetry?.(attempt, lastError, delayMs): the call made, if any *)
Observed(r, lastError, delayMs, observer) ==
    IF observer = "none" THEN <<>>
    ELSE <<RetryEvent("onRetry", r.attempt, lastError, delayMs)>>

(* The body of the loop from the point where `await fn()` settles with o,  *)
(* up to the next await, the return or the exception that leaves the       *)
(* function: the state it leaves and the calls it makes on the way.  The   *)
(* call of the observer is outside the try block.                          *)
AfterFn(r, o, ds, observer) ==
    LET maxAttempts == Len(ds) + 1
        lastError == ErrorOf(r, o)
        delayMs == ds[r.attempt]
    IN  IF Succeeded(o)
        THEN [state |-> RetryState("returned", r.attempt, r.lastError, <<RetryOk(o.value)>>),
              calls |-> <<>>]
        ELSE IF r.attempt < maxAttempts
        THEN IF observer = "throws"
             THEN [state |-> RetryState("threw", r.attempt, lastError, <<>>),
                   calls |-> Observed(r, lastError, delayMs, observer)]
             ELSE [state |-> RetryState("sleep", r.attempt, lastError, <<>>),
                   calls |-> Observed(r, lastError, delayMs, observer)
                                \o <<RetryEvent("sleep", r.attempt, "", delayMs)>>]
        ELSE [state |-> RetryState("returned", r.attempt, lastError,
                                   <<RetryErr(retryError(maxAttempts, lastError))>>),
              calls |-> <<>>]

(* withRetry(fn, {delays: ds, onRetry: observer}) up to the first await *)
withRetry(ds, observer) ==
    /\ retry.pc = "idle"
    /\ delays' = ds
    /\ onRetry' = observer
    /\ retry' = RetryState("fn", 1, "null", <<>>)
    /\ log' = <<RetryEvent("fn", 1, "", 0)>>
    /\ UNCHANGED <<outcomes, facadeVars, registryVars, compressVars,
                   evalVars, parseVars, jarVars, restVars>>

(* fn() settles with o *)
FnSettles(o) ==
    LET after == AfterFn(retry, o, delays, onRetry) IN
    /\ retry.pc = "fn"
    /\ retry' = after.state
    /\ log' = log \o after.calls
    /\ outcomes' = Append(outcomes, o)
    /\ UNCHANGED <<delays, onRetry, facadeVars, registryVars, compressVars,
                   evalVars, parseVars, jarVars, restVars>>

(* the sleep ends: the loop's increment and the next fn() *)
SleepSettles ==
    /\ retry.pc = "sleep"
    /\ retry' = [retry EXCEPT !.pc = "fn", !.attempt = @ + 1]
    /\ log' = Append(log, RetryEvent("fn", retry.attempt + 1, "", 0))
    /\ UNCHANGED <<delays, onRetry, outcomes, facadeVars, registryVars, compressVars,
                   evalVars, parseVars, jarVars, restVars>>

RetryCall == \E ds \in DelayLists : \E observer \in Observers : withRetry(ds, observer)
RetryFnSettle == \E o \in FnOutcomes : FnSettles(o)

RetryNext ==
    \/ RetryCall
    \/ RetryFnSettle
    \/ SleepSettles

----------------------------------------------------------------------------
(* compressDaySchedule.  Times are counted in half hours: the code's       *)
(* hourStart, hourStart + 0.5 and hourStart + 1 are 2 * hourStart,         *)
(* 2 * hourStart + 1 and 2 * hourStart + 2 here.  The grid holds keys      *)
(* among "1" .. String(MaxHourKey); the loop runs over all of 1 .. 24.     *)

LastHourKey == 24

ScheduleStatus == {"yes", "maybe", "no", "mfirst", "msecond", "first", "second"}

(* dayData[String(hourKey)]: a code, or "" for a key the grid lacks *)
RawStatuses == ScheduleStatus \cup {""}

normalizeStatus_Shifted(status) ==
    IF status = "yes" THEN "maybe" ELSE "no"

normalizeStatus_MaybeIsNo(status) ==
    IF status = "yes" THEN "yes" ELSE "no"

normalizeStatus(status) ==
    IF status = "yes" THEN "yes"
    ELSE IF status = "maybe" \/ status = "mfirst" \/ status = "msecond" THEN "maybe"
    ELSE "no"

ScheduleRange(from, to, status) == [from |-> from, to |-> to, status |-> status]

addRange_Appends(rs, from, to, status) == Append(rs, ScheduleRange(from, to, status))

addRange(rs, from, to, status) ==
    IF Len(rs) > 0 /\ rs[Len(rs)].to = from /\ rs[Len(rs)].status = status
    THEN [rs EXCEPT ![Len(rs)].to = to]
    ELSE Append(rs, ScheduleRange(from, to, status))

compressHour_FullHours(rs, hk, rawStatus) ==
    IF rawStatus = "" THEN rs
    ELSE addRange(rs, 2 * (hk - 1), 2 * (hk - 1) + 2, normalizeStatus(rawStatus))

(* one iteration of the loop: the list after it *)
compressHour(rs, hk, rawStatus) ==
    LET hourStart == 2 * (hk - 1)
        half == hourStart + 1
        hourEnd == hourStart + 2
    IN  IF rawStatus = "" THEN rs
        ELSE IF rawStatus = "mfirst"
        THEN addRange(addRange(rs, hourStart, half, "maybe"), half, hourEnd, "yes")
        ELSE IF rawStatus = "msecond"
        THEN addRange(addRange(rs, hourStart, half, "yes"), half, hourEnd, "maybe")
        ELSE IF rawStatus = "first"
        THEN addRange(addRange(rs, hourStart, half, "no"), half, hourEnd, "yes")
        ELSE IF rawStatus = "second"
        THEN addRange(addRange(rs, hourStart, half, "yes"), half, hourEnd, "no")
        ELSE addRange(rs, hourStart, hourEnd, normalizeStatus(rawStatus))

(* compressDaySchedule(dayData) for a grid that has the hour keys          *)
(* 1..Len(grid) (a code, or "" for a key it lacks) and no key above: the   *)
(* loop from hour key hk with the list rs                                  *)
RECURSIVE CompressFrom(_, _, _)
CompressFrom(rs, hk, grid) ==
    IF hk > Len(grid) \/ hk > LastHourKey THEN rs
    ELSE CompressFrom(compressHour(rs, hk, grid[hk]), hk + 1, grid)

compressDaySchedule(grid) == CompressFrom(<<>>, 1, grid)

CompressInit ==
    /\ dayData = <<>>
    /\ hourKey = 1
    /\ ranges = <<>>

(* the iteration for hourKey, which finds rawStatus in the grid *)
CompressIteration(rawStatus) ==
    /\ hourKey <= MaxHourKey
    /\ hourKey <= LastHourKey
    /\ dayData' = Append(dayData, rawStatus)
    /\ ranges' = compressHour(ranges, hourKey, rawStatus)
    /\ hourKey' = hourKey + 1
    /\ UNCHANGED <<facadeVars, registryVars, retryVars,
                   evalVars, parseVars, jarVars, restVars>>

(* the iterations for the hour keys above MaxHourKey, all of which the     *)
(* grid lacks: each of them continues                                      *)
CompressRest ==
    /\ hourKey > MaxHourKey
    /\ hourKey <= LastHourKey
    /\ hourKey' = LastHourKey + 1
    /\ UNCHANGED <<dayData, ranges, facadeVars, registryVars, retryVars,
                   evalVars, parseVars, jarVars, restVars>>

CompressStep == \E rawStatus \in RawStatuses : CompressIteration(rawStatus)

CompressNext ==
    \/ CompressStep
    \/ CompressRest

----------------------------------------------------------------------------
(* evalAst *)

(* JavaScript values, as far as the parser handles them.  `prim` is the    *)
(* text of a string, number or boolean; an object has its own keys in      *)
(* `keys` and their values, in the same order, in `items`.                 *)
JsValue(tag, prim, items, keys) == [tag |-> tag, prim |-> prim, items |-> items, keys |-> keys]

JsNull == JsValue("null", "", <<>>, <<>>)
JsUndefined == JsValue("undefined", "", <<>>, <<>>)
JsString(text) == JsValue("string", text, <<>>, <<>>)
JsNumber(text) == JsValue("number", text, <<>>, <<>>)
JsArray(items) == JsValue("array", "", items, <<>>)
JsObject(keys, items) == JsValue("object", "", items, keys)

(* String(value) of a literal's value *)
String(v) == IF v.tag = "null" THEN "null" ELSE v.prim

(* Number(value) of a literal's value, as the text of the number *)
Number(v) ==
    IF v.tag = "number" THEN v.prim
    ELSE IF v.tag = "null" THEN "0"
    ELSE IF v.tag = "string" /\ v.prim \in {"0", "1", "2"} THEN v.prim
    ELSE IF v.tag = "string" /\ v.prim = "" THEN "0"
    ELSE "NaN"

(* -x, for the numbers that occur *)
Negated(text) ==
    IF text = "0" THEN "-0"
    ELSE IF text = "1" THEN "-1"
    ELSE IF text = "2" THEN "-2"
    ELSE "NaN"

(* Nodes of the syntax tree (ESTree).  `kids` are the child nodes: the     *)
(* elements of an array, the properties of an object, <<key, value>> of a  *)
(* property, the argument of a spread or unary expression.  `name` is the  *)
(* name of an identifier or the operator of a unary expression.            *)
Node(type, value, name, computed, kids) ==
    [type |-> type, value |-> value, name |-> name, computed |-> computed, kids |-> kids]

Literal(v) == Node("Literal", v, "", FALSE, <<>>)
ArrayExpression(elements) == Node("ArrayExpression", JsNull, "", FALSE, elements)
ObjectExpression(properties) == Node("ObjectExpression", JsNull, "", FALSE, properties)
Property(key, value, computed) == Node("Property", JsNull, "", computed, <<key, value>>)
SpreadElement(argument) == Node("SpreadElement", JsNull, "", FALSE, <<argument>>)
UnaryExpression(operator, argument) == Node("UnaryExpression", JsNull, operator, FALSE, <<argument>>)
Identifier(name) == Node("Identifier", JsNull, name, FALSE, <<>>)
CallExpression(callee) == Node("CallExpression", JsNull, "", FALSE, <<callee>>)
TemplateLiteral == Node("TemplateLiteral", JsNull, "", FALSE, <<>>)
BinaryExpression(operator, left, right) == Node("BinaryExpression", JsNull, operator, FALSE, <<left, right>>)
(* the hole of an array literal: a null among the elements *)
Hole == Node("undefined", JsNull, "", FALSE, <<>>)

MAX_AST_DEPTH == 50

(* propKeyToString: <<>> for null, <<the key>> otherwise *)
propKeyToString(prop) ==
    IF prop.type # "Property" THEN <<>>
    ELSE IF ~prop.computed /\ prop.kids[1].type = "Identifier" THEN <<prop.kids[1].name>>
    ELSE IF prop.kids[1].type = "Literal" THEN <<String(prop.kids[1].value)>>
    ELSE <<>>

(* How a call of evalAst ends: with a value, or with an Error thrown.      *)
(* `deepest` is the greatest depth at which a call went past the depth     *)
(* test.                                                                   *)
Evaluated(value, deepest) == [ok |-> TRUE, value |-> value, error |-> "", deepest |-> deepest]

EvalThrows(error, deepest) == [ok |-> FALSE, value |-> JsUndefined, error |-> error, deepest |-> deepest]

Deeper(a, b) == IF a >= b THEN a ELSE b

Assigned_Appended(out, k, v) == JsObject(Append(out.keys, k), Append(out.items, v))

(* out[k] = v on an object *)
Assigned(out, k, v) ==
    IF \E i \in DOMAIN out.keys : out.keys[i] = k
    THEN JsObject(out.keys,
                  [i \in DOMAIN out.items |-> IF out.keys[i] = k THEN v ELSE out.items[i]])
    ELSE JsObject(Append(out.keys, k), Append(out.items, v))

(* case 'UnaryExpression' *)
evalUnary(unary, depth) ==
    IF unary.name = "-" /\ unary.kids[1].type = "Literal"
    THEN Evaluated(JsNumber(Negated(Number(unary.kids[1].value))), depth)
    ELSE EvalThrows("Unsupported UnaryExpression", depth)

(* the test at the head of evalAst *)
DepthExceeded(depth) == depth > MAX_AST_DEPTH

RECURSIVE evalAst(_, _)
RECURSIVE evalElements(_, _, _, _)
RECURSIVE evalProperties(_, _, _, _, _)

(* elements.map(el => evalAst(el, depth + 1)), from element i on, with the *)
(* values of the elements before it in done                                *)
evalElements(elements, i, done, depth) ==
    IF i > Len(elements) THEN Evaluated(JsArray(done), depth)
    ELSE LET el == evalAst(elements[i], depth + 1) IN
         IF ~el.ok THEN EvalThrows(el.error, Deeper(depth, el.deepest))
         ELSE LET rest == evalElements(elements, i + 1, Append(done, el.value), depth) IN
              [rest EXCEPT !.deepest = Deeper(@, el.deepest)]

(* the loop over the properties, from property i on, with the object out *)
evalProperties(properties, i, out, depth, deepest) ==
    IF i > Len(properties) THEN Evaluated(out, deepest)
    ELSE IF properties[i].type # "Property"
    THEN evalProperties(properties, i + 1, out, depth, deepest)
    ELSE IF propKeyToString(properties[i]) = <<>>
    THEN evalProperties(properties, i + 1, out, depth, deepest)
    ELSE LET v == evalAst(properties[i].kids[2], depth + 1) IN
         IF ~v.ok THEN EvalThrows(v.error, Deeper(deepest, v.deepest))
         ELSE evalProperties(properties, i + 1,
                             Assigned(out, propKeyToString(properties[i])[1], v.value),
                             depth, Deeper(deepest, v.deepest))

(* evalAst(node, depth) *)
evalAst(n, depth) ==
    IF DepthExceeded(depth)
    THEN EvalThrows("AST evaluation exceeded maximum depth", 0)
    ELSE IF n.type = "Literal" THEN Evaluated(n.value, depth)
    ELSE IF n.type = "ArrayExpression" THEN evalElements(n.kids, 1, <<>>, depth)
    ELSE IF n.type = "ObjectExpression"
    THEN evalProperties(n.kids, 1, JsObject(<<>>, <<>>), depth, depth)
    ELSE IF n.type = "UnaryExpression" THEN evalUnary(n, depth)
    ELSE EvalThrows("Unsupported AST node type", depth)

(* The trees evalAst is called with *)

One == Literal(JsNumber("1"))

LiteralLeaves == {One, Literal(JsString("a")), Literal(JsNull)}

OtherLeaves ==
    {CallExpression(Identifier("f")), Identifier("x"), TemplateLiteral,
     BinaryExpression("+", One, One), Hole}

(* the trees that have t as a child, one for each place a child can be in *)
Around(t) ==
    {ArrayExpression(<<t>>),
     ArrayExpression(<<One, t>>),
     ObjectExpression(<<Property(Literal(JsString("k")), t, FALSE)>>),
     ObjectExpression(<<Property(Identifier("k"), One, FALSE), SpreadElement(t)>>),
     ObjectExpression(<<Property(t, One, TRUE)>>),
     UnaryExpression("-", t),
     UnaryExpression("!", t)}

RECURSIVE Nested(_)
Nested(n) ==
    IF n = 0 THEN LiteralLeaves \cup OtherLeaves
    ELSE Nested(n - 1) \cup UNION {Around(t) : t \in Nested(n - 1)}

(* t inside n array literals *)
RECURSIVE Nest(_, _)
Nest(n, t) == IF n = 0 THEN t ELSE ArrayExpression(<<Nest(n - 1, t)>>)

(* trees about as deep as the bound: a literal or a negation inside        *)
(* n arrays, and such a tree in a place of an object literal               *)
DeepTrees ==
    LET deep == {Nest(n, t) : n \in {MAX_AST_DEPTH, MAX_AST_DEPTH + 1},
                              t \in {One, UnaryExpression("-", One)}}
    IN  deep
        \cup {ObjectExpression(<<Property(Identifier("k"), One, FALSE), SpreadElement(t)>>) :
                    t \in deep}
        \cup {ObjectExpression(<<Property(Identifier("x"), t, TRUE)>>) : t \in deep}

Trees == Nested(MaxNest) \cup DeepTrees

EvalInit ==
    /\ node = <<>>
    /\ frames = <<>>
    /\ evaluated = <<>>

(* A call of evalAst in progress: its node, the place it is at (0: the     *)
(* call is made and the depth test is still to come; i >= 1: the loop over *)
(* the elements or properties is at the i-th of them) and the array or     *)
(* object built so far.  The depth argument of the call frames[j] is       *)
(* j - 1: every recursive call passes depth + 1.                           *)
Frame(n, at, out) == [n |-> n, at |-> at, out |-> out]

(* the call on top returns v: to its caller, which stores it and goes on   *)
(* with its loop, or to the caller of evalAst                              *)
Returned(fs, v) ==
    LET callers == SubSeq(fs, 1, Len(fs) - 1)
        caller == fs[Len(fs) - 1]
        stored == IF caller.n.type = "ArrayExpression"
                  THEN JsArray(Append(caller.out.items, v))
                  ELSE Assigned(caller.out, propKeyToString(caller.n.kids[caller.at])[1], v)
    IN  IF Len(fs) = 1
        THEN [frames |-> <<>>, evaluated |-> <<Evaluated(v, 0)>>]
        ELSE [frames |-> [callers EXCEPT ![Len(callers)] = Frame(caller.n, caller.at + 1, stored)],
              evaluated |-> <<>>]

(* the call on top throws: no call of evalAst catches *)
Threw(fs, error) == [frames |-> <<>>, evaluated |-> <<EvalThrows(error, 0)>>]

(* evalAst(t) is called from outside *)
EvalCall(t) ==
    /\ node = <<>>
    /\ node' = <<t>>
    /\ frames' = <<Frame(t, 0, JsUndefined)>>
    /\ evaluated' = <<>>
    /\ UNCHANGED <<facadeVars, registryVars, retryVars, compressVars, parseVars, jarVars, restVars>>

(* the call on top runs from its head to its first recursive call: the     *)
(* depth test and the switch                                               *)
EvalEnter ==
    /\ frames # <<>>
    /\ frames[Len(frames)].at = 0
    /\ LET top == frames[Len(frames)]
           depth == Len(frames) - 1
           after ==
               IF DepthExceeded(depth)
               THEN Threw(frames, "AST evaluation exceeded maximum depth")
               ELSE IF top.n.type = "Literal" THEN Returned(frames, top.n.value)
               ELSE IF top.n.type = "ArrayExpression"
               THEN [frames |-> [frames EXCEPT ![Len(frames)] = Frame(top.n, 1, JsArray(<<>>))],
                     evaluated |-> <<>>]
               ELSE IF top.n.type = "ObjectExpression"
               THEN [frames |-> [frames EXCEPT ![Len(frames)] =
                                    Frame(top.n, 1, JsObject(<<>>, <<>>))],
                     evaluated |-> <<>>]
               ELSE IF top.n.type = "UnaryExpression"
               THEN IF evalUnary(top.n, depth).ok
                    THEN Returned(frames, evalUnary(top.n, depth).value)
                    ELSE Threw(frames, evalUnary(top.n, depth).error)
               ELSE Threw(frames, "Unsupported AST node type")
       IN  /\ frames' = after.frames
           /\ evaluated' = after.evaluated
    /\ UNCHANGED <<node, facadeVars, registryVars, retryVars, compressVars, parseVars, jarVars, restVars>>

(* the loop of the call on top: it calls evalAst for the next element or   *)
(* property value, continues past a property it does not take, or returns  *)
(* the array or object when the loop is over                               *)
EvalAdvance ==
    /\ frames # <<>>
    /\ frames[Len(frames)].at >= 1
    /\ LET top == frames[Len(frames)]
           kids == top.n.kids
           after ==
               IF top.at > Len(kids) THEN Returned(frames, top.out)
               ELSE IF top.n.type = "ArrayExpression"
               THEN [frames |-> Append(frames, Frame(kids[top.at], 0, JsUndefined)),
                     evaluated |-> <<>>]
               ELSE IF kids[top.at].type # "Property" \/ propKeyToString(kids[top.at]) = <<>>
               THEN [frames |-> [frames EXCEPT ![Len(frames)] = Frame(top.n, top.at + 1, top.out)],
                     evaluated |-> <<>>]
               ELSE [frames |-> Append(frames, Frame(kids[top.at].kids[2], 0, JsUndefined)),
                     evaluated |-> <<>>]
       IN  /\ frames' = after.frames
           /\ evaluated' = after.evaluated
    /\ UNCHANGED <<node, facadeVars, registryVars, retryVars, compressVars, parseVars, jarVars, restVars>>

EvalNext ==
    \/ \E t \in Trees : EvalCall(t)
    \/ EvalEnter
    \/ EvalAdvance

----------------------------------------------------------------------------
(* parseTemplate on pages given in detail.  (Part 1 uses a summary of the  *)
(* page: the forms of its three assignments.)                              *)

(* value[key] of an object *)
Get(v, key) ==
    IF v.tag = "object" /\ \E i \in DOMAIN v.keys : v.keys[i] = key
    THEN v.items[CHOOSE i \in DOMAIN v.keys : v.keys[i] = key]
    ELSE JsUndefined

(* the decimal texts of 1..24, and of an array index *)
HourKeyText ==
    <<"1", "2", "3", "4", "5", "6", "7", "8", "9", "10", "11", "12",
      "13", "14", "15", "16", "17", "18", "19", "20", "21", "22", "23", "24">>

IndexText(i) == IF i = 0 THEN "0" ELSE HourKeyText[i]

(* Object.entries(v): a TypeError for null and undefined, the own keys and *)
(* values of an object, the indexes and elements of an array, the one      *)
(* character of a string of length one, nothing for a number               *)
Entries(v) ==
    IF v.tag \in {"null", "undefined"} THEN [throws |-> TRUE, keys |-> <<>>, items |-> <<>>]
    ELSE IF v.tag = "object" THEN [throws |-> FALSE, keys |-> v.keys, items |-> v.items]
    ELSE IF v.tag = "array"
    THEN [throws |-> FALSE, keys |-> [i \in DOMAIN v.items |-> IndexText(i - 1)],
          items |-> v.items]
    ELSE IF v.tag = "string" /\ v.prim # ""
    THEN [throws |-> FALSE, keys |-> <<"0">>, items |-> <<v>>]
    ELSE [throws |-> FALSE, keys |-> <<>>, items |-> <<>>]

(* dayData[String(hourKey)]: undefined on a number or a string of length   *)
(* one; on null the access throws (LookupThrows)                           *)
Lookup(v, hk) ==
    IF v.tag = "object" THEN Get(v, HourKeyText[hk])
    ELSE IF v.tag = "array" /\ hk + 1 <= Len(v.items) THEN v.items[hk + 1]
    ELSE JsUndefined

LookupThrows(v) == v.tag \in {"null", "undefined"}

(* rawStatus as compressDaySchedule tests it: "" when it is falsy, the     *)
(* text of a string, "truthy" for any other value (equal to no code)       *)
RawStatusOf(v) ==
    IF v.tag \in {"null", "undefined"} THEN ""
    ELSE IF v.tag = "string" THEN v.prim
    ELSE IF v.tag = "number" /\ v.prim \in {"0", "-0", "NaN"} THEN ""
    ELSE "truthy"

(* the hourly grid compressDaySchedule reads from dayData *)
GridRead(v) == [hk \in 1 .. LastHourKey |-> RawStatusOf(Lookup(v, hk))]

(* The page.  csrf: <<>> when the page has no csrf-token meta tag with a   *)
(* content attribute, <<content>> otherwise.  markers: the bot-protection  *)
(* markers its text contains.  streets, fact, preset: <<>> when no script  *)
(* assigns an object literal to DisconSchedule.streets / .fact / .preset,  *)
(* <<the ObjectExpression>> of the first such assignment otherwise.        *)
Page(csrf, markers, streets, fact, preset) ==
    [csrf |-> csrf, markers |-> markers, streets |-> streets, fact |-> fact, preset |-> preset]

BotMarkers == {"_Incapsula_Resource", "SWJIYLWA"}

Text(t) == Literal(JsString(t))

Member(key, value) == Property(Text(key), value, FALSE)

StreetsObjects ==
    {ObjectExpression(<<Member("Kyiv", ArrayExpression(<<Text("a"), Text("b")>>)),
                        Member("Odesa", ArrayExpression(<<Text("c")>>))>>),
     ObjectExpression(<<>>),
     ObjectExpression(<<Member("Odesa", ArrayExpression(<<Text("c")>>)),
                        Member("Kyiv", ArrayExpression(<<Text("a")>>)),
                        Member("Odesa", ArrayExpression(<<Text("b")>>))>>),
     ObjectExpression(<<Member("__proto__", ArrayExpression(<<Text("a")>>)),
                        Property(Identifier("Kyiv"), ArrayExpression(<<Text("b")>>), FALSE)>>),
     ObjectExpression(<<Member("Kyiv", ArrayExpression(<<Text("a")>>)),
                        SpreadElement(Identifier("x"))>>),
     ObjectExpression(<<Property(Identifier("x"), ArrayExpression(<<Text("a")>>), TRUE),
                        Member("Odesa", ArrayExpression(<<Text("c")>>))>>),
     ObjectExpression(<<Member("Kyiv", CallExpression(Identifier("f")))>>),
     ObjectExpression(<<Member("Kyiv", Text("a"))>>),
     ObjectExpression(<<Member("Kyiv", ArrayExpression(<<One>>))>>)}

FactObjects ==
    {ObjectExpression(<<Member("data", ObjectExpression(<<>>)), Member("update", Text("21.12"))>>),
     ObjectExpression(<<Member("data", ObjectExpression(<<>>))>>),
     ObjectExpression(<<Member("update", One)>>),
     ObjectExpression(<<Member("update", Text(""))>>),
     ObjectExpression(<<Member("update", CallExpression(Identifier("f")))>>)}

(* a day of the preset table: hour key -> code *)
DayObject == ObjectExpression(<<Member("1", Text("yes")), Member("2", Text("first")),
                                Member("3", Text("no"))>>)

PresetOf(data) == ObjectExpression(<<Member("data", data)>>)

PresetObjects ==
    {PresetOf(ObjectExpression(<<Member("GPV1.1", ObjectExpression(<<Member("1", DayObject)>>)),
                                 Member("GPV1.2", ObjectExpression(<<>>))>>)),
     PresetOf(ObjectExpression(<<>>)),
     PresetOf(ObjectExpression(<<Member("GPV1.1", Literal(JsNull))>>)),
     PresetOf(ObjectExpression(<<Member("GPV1.1", ObjectExpression(<<Member("1", Literal(JsNull))>>))>>)),
     PresetOf(ObjectExpression(<<Member("GPV1.1", One)>>)),
     PresetOf(ObjectExpression(<<Member("GPV1.1", ObjectExpression(<<Member("1", One)>>))>>)),
     PresetOf(ArrayExpression(<<DayObject>>)),
     PresetOf(Literal(JsNull)),
     PresetOf(Text("a")),
     PresetOf(CallExpression(Identifier("f"))),
     ObjectExpression(<<>>)}

Optional(S) == {<<>>} \cup {<<x>> : x \in S}

Pages ==
    {Page(csrf, markers, streets, fact, preset) :
        csrf \in Optional({"", "token"}), markers \in SUBSET BotMarkers,
        streets \in Optional(StreetsObjects), fact \in Optional(FactObjects),
        preset \in Optional(PresetObjects)}

(* What parseTemplate returns: a Result, or an exception thrown.  value is *)
(* the DtekTemplateData of a success.                                      *)
TemplateData(csrf, updateFact, cities, streetsByCity, schedules) ==
    [csrf |-> csrf, updateFact |-> updateFact, cities |-> cities,
     streetsByCity |-> streetsByCity, schedules |-> schedules]

NoTemplateData == TemplateData("", "", <<>>, JsUndefined, <<>>)

ParseOk(value) == [kind |-> "ok", code |-> "", detail |-> "", value |-> value]

ParseErr(code, detail) == [kind |-> "err", code |-> code, detail |-> detail, value |-> NoTemplateData]

ParseThrows(what) == [kind |-> "throw", code |-> what, detail |-> "", value |-> NoTemplateData]

isBotProtectionPage_OnlyIncapsula(page) == "_Incapsula_Resource" \in page.markers

(* isBotProtectionPage *)
isBotProtectionPage(page) ==
    "_Incapsula_Resource" \in page.markers \/ "SWJIYLWA" \in page.markers

(* extractCsrfMeta(html) *)
extractCsrfMetaHtml(page) ==
    IF page.csrf = <<>> \/ page.csrf = <<"">>
    THEN IF isBotProtectionPage(page)
         THEN ParseErr("REGION_UNAVAILABLE", "")
         ELSE ParseErr("PARSE_ERROR", "csrf")
    ELSE ParseOk(TemplateData(page.csrf[1], "", <<>>, JsUndefined, <<>>))

(* extractUpdateFromFactObject, from property i on: the value it returns   *)
(* (null for no string), or what evalAst throws                            *)
RECURSIVE extractUpdateFromFactObject(_, _)
extractUpdateFromFactObject(factObj, i) ==
    IF i > Len(factObj.kids) THEN Evaluated(JsNull, 0)
    ELSE IF factObj.kids[i].type # "Property"
    THEN extractUpdateFromFactObject(factObj, i + 1)
    ELSE IF propKeyToString(factObj.kids[i]) = <<"update">>
    THEN LET value == evalAst(factObj.kids[i].kids[2], 0) IN
         IF ~value.ok THEN value
         ELSE IF value.value.tag = "string" THEN value ELSE Evaluated(JsNull, 0)
    ELSE extractUpdateFromFactObject(factObj, i + 1)

(* extractDisconScheduleData(html): value carries updateFact and           *)
(* streetsByCity                                                           *)
extractDisconScheduleDataHtml(page) ==
    IF page.streets = <<>> THEN ParseErr("PARSE_ERROR", "discon_streets")
    ELSE IF page.fact = <<>> THEN ParseErr("PARSE_ERROR", "discon_fact")
    ELSE LET updateFact == extractUpdateFromFactObject(page.fact[1], 1)
             streetsByCity == evalAst(page.streets[1], 0)
         IN  IF ~updateFact.ok THEN ParseErr("PARSE_ERROR", "template")
             ELSE IF updateFact.value.tag # "string" \/ updateFact.value.prim = ""
             THEN ParseErr("PARSE_ERROR", "discon_fact")
             ELSE IF ~streetsByCity.ok THEN ParseErr("PARSE_ERROR", "template")
             ELSE ParseOk(TemplateData("", updateFact.value.prim, <<>>,
                                       streetsByCity.value, <<>>))

(* extractPresetData(html): <<>> for null, <<raw>> otherwise; whatever is  *)
(* thrown inside is caught                                                 *)
extractPresetDataHtml(page) ==
    IF page.preset = <<>> THEN <<>>
    ELSE LET raw == evalAst(page.preset[1], 0) IN
         IF ~raw.ok THEN <<>>
         ELSE IF Get(raw.value, "data").tag \in {"object", "array"} THEN <<raw.value>>
         ELSE <<>>

(* processPresetSchedules(rawPreset): the table groupId -> dayNum ->       *)
(* ranges, or the TypeError of Object.entries(weekData) on a null week or  *)
(* of dayData[...] on a null day                                           *)
processPresetSchedules(rawPreset) ==
    LET groups == Entries(Get(rawPreset, "data"))
        week(g) == Entries(groups.items[g])
    IN  IF \E g \in DOMAIN groups.items :
                \/ week(g).throws
                \/ \E d \in DOMAIN week(g).items : LookupThrows(week(g).items[d])
        THEN [throws |-> TRUE, keys |-> <<>>, items |-> <<>>]
        ELSE [throws |-> FALSE, keys |-> groups.keys,
              items |-> [g \in DOMAIN groups.items |->
                            [keys |-> week(g).keys,
                             items |-> [d \in DOMAIN week(g).items |->
                                           compressDaySchedule(GridRead(week(g).items[d]))]]]]

(* the names that occur as keys of streetsByCity, in the order of sort() *)
SortedNames == <<"Kyiv", "Odesa", "__proto__", "k", "x">>

(* Object.keys(streetsByCity).sort() *)
SortedKeys(v) ==
    LET IsKey(name) == \E i \in DOMAIN v.keys : v.keys[i] = name
    IN  SelectSeq(SortedNames, IsKey)

(* dtekTemplateDataSchema.safeParse(templateData).success: csrf is not     *)
(* empty, every value of streetsByCity is an array of strings; the cities  *)
(* are strings and the schedules ranges by construction                    *)
templateDataSchemaAccepts(templateData) ==
    /\ templateData.csrf # ""
    /\ \A i \in DOMAIN templateData.streetsByCity.items :
        /\ templateData.streetsByCity.items[i].tag = "array"
        /\ \A j \in DOMAIN templateData.streetsByCity.items[i].items :
                templateData.streetsByCity.items[i].items[j].tag = "string"

(* parseTemplate(html) *)
parseTemplateHtml(page) ==
    LET csrfResult == extractCsrfMetaHtml(page)
        scheduleResult == extractDisconScheduleDataHtml(page)
        rawPreset == extractPresetDataHtml(page)
        schedules == processPresetSchedules(rawPreset[1])
        templateData ==
            TemplateData(csrfResult.value.csrf, scheduleResult.value.updateFact,
                         SortedKeys(scheduleResult.value.streetsByCity),
                         scheduleResult.value.streetsByCity,
                         IF rawPreset = <<>> THEN <<>>
                         ELSE <<[keys |-> schedules.keys, items |-> schedules.items]>>)
    IN  IF csrfResult.kind # "ok" THEN csrfResult
        ELSE IF scheduleResult.kind # "ok" THEN scheduleResult
        ELSE IF rawPreset # <<>> /\ schedules.throws THEN ParseThrows("TypeError")
        ELSE IF ~templateDataSchemaAccepts(templateData)
        THEN ParseErr("PARSE_ERROR", "template")
        ELSE ParseOk(templateData)

ParseInit ==
    /\ html = <<>>
    /\ parsed = <<>>

(* parseTemplate(page): the call and how it ends *)
ParseCall(page) ==
    /\ html = <<>>
    /\ html' = <<page>>
    /\ parsed' = <<parseTemplateHtml(page)>>
    /\ UNCHANGED <<facadeVars, registryVars, retryVars, compressVars, evalVars, jarVars, restVars>>

ParseNext == \E page \in Pages : ParseCall(page)

----------------------------------------------------------------------------
(* CookieJar, and the cookies of the template fetch and of status queries. *)
(* A text (a Set-Cookie value, a cookie name, a cookie header) is the      *)
(* sequence of its pieces; "=", ";" and " " are pieces of their own and no *)
(* piece is the beginning of another, so that one text starts with another *)
(* exactly when its pieces do.                                             *)

(* the services whose cookies are followed *)
JarRegions == {"kem", "krem"}

(* Set-Cookie values a DTEK server may answer with *)
SetCookieHeaders ==
    {<<"dtek-", "kem", "=", "a", ";", " ", "Path", "=", "/">>,
     <<" ", "dtek-", "kem", " ", "=", " ", "b", " ">>,
     <<"PHPSESSID", "=", "a", "=", "b", ";", "dtek-", "krem", "=", "c">>,
     <<"=", "a">>}

(* what getSetCookie() returns for a response: no, one or two values *)
SetCookieLists ==
    {<<>>} \cup {<<h>> : h \in SetCookieHeaders}
           \cup {hs \in SetCookieHeaders \X SetCookieHeaders : hs[1] # hs[2]}

(* text.indexOf(piece) + 1 *)
IndexOf(text, piece) ==
    IF \E i \in DOMAIN text : text[i] = piece
    THEN CHOOSE i \in DOMAIN text : text[i] = piece /\ \A j \in 1 .. i - 1 : text[j] # piece
    ELSE 0

(* text.trim() *)
RECURSIVE Trim(_)
Trim(text) ==
    IF text = <<>> THEN text
    ELSE IF Head(text) = " " THEN Trim(Tail(text))
    ELSE IF text[Len(text)] = " " THEN Trim(SubSeq(text, 1, Len(text) - 1))
    ELSE text

(* text.split(';', 1)[0] *)
FirstPart(text) ==
    IF IndexOf(text, ";") = 0 THEN text ELSE SubSeq(text, 1, IndexOf(text, ";") - 1)

MapSet_KeepsBoth(cookies, name, value) == Append(cookies, [name |-> name, value |-> value])

(* this.cookies.set(name, value): a Map keeps the place of a key it has *)
MapSet(cookies, name, value) ==
    IF \E i \in DOMAIN cookies : cookies[i].name = name
    THEN [i \in DOMAIN cookies |->
            IF cookies[i].name = name THEN [name |-> name, value |-> value] ELSE cookies[i]]
    ELSE Append(cookies, [name |-> name, value |-> value])

(* the body of the loop of absorb *)
absorbHeader(cookies, header) ==
    LET pair == FirstPart(header)
        eqIndex == IndexOf(pair, "=") - 1
    IN  IF eqIndex <= 0 THEN cookies
        ELSE MapSet(cookies, Trim(SubSeq(pair, 1, eqIndex)),
                    Trim(SubSeq(pair, eqIndex + 2, Len(pair))))

(* CookieJar.absorb *)
RECURSIVE absorb(_, _)
absorb(cookies, setCookieHeaders) ==
    IF setCookieHeaders = <<>> THEN cookies
    ELSE absorb(absorbHeader(cookies, Head(setCookieHeaders)), Tail(setCookieHeaders))

StartsWith(text, prefix) ==
    Len(text) >= Len(prefix) /\ SubSeq(text, 1, Len(prefix)) = prefix

keepPattern_AnyRegion(region, name) ==
    \/ StartsWith(name, <<"dtek-">>)
    \/ StartsWith(name, <<"_csrf-", "dtek-">>)
    \/ StartsWith(name, <<"_language">>)
    \/ StartsWith(name, <<"visid_incap_">>)
    \/ StartsWith(name, <<"incap_ses_">>)
    \/ StartsWith(name, <<"incap_wrt_">>)

(* keepPattern.test(name) *)
keepPattern(region, name) ==
    \/ StartsWith(name, <<"dtek-", region>>)
    \/ StartsWith(name, <<"_csrf-", "dtek-", region>>)
    \/ StartsWith(name, <<"_language">>)
    \/ StartsWith(name, <<"visid_incap_">>)
    \/ StartsWith(name, <<"incap_ses_">>)
    \/ StartsWith(name, <<"incap_wrt_">>)

(* entries.map(([k, v]) => `${k}=${v}`).join('; ') *)
RECURSIVE JoinCookies(_)
JoinCookies(entries) ==
    IF entries = <<>> THEN <<>>
    ELSE IF Len(entries) = 1 THEN entries[1].name \o <<"=">> \o entries[1].value
    ELSE entries[1].name \o <<"=">> \o entries[1].value \o <<";", " ">>
            \o JoinCookies(Tail(entries))

(* CookieJar.getFiltered *)
getFiltered(cookies, region) ==
    LET Kept(entry) == keepPattern(region, entry.name)
    IN  JoinCookies(SelectSeq(cookies, Kept))

Absorbed_IntoCopy(heap, jar, setCookieHeaders) == heap

(* cookies.absorb(setCookieHeaders) on the jar object jar of the heap *)
Absorbed(heap, jar, setCookieHeaders) ==
    [heap EXCEPT ![jar] = absorb(@, setCookieHeaders)]

(* jarHeap: the CookieJar objects made so far, by identity.  sessionJar:   *)
(* session.cookies of each service, 0 when it has no session.  query: the  *)
(* status query in flight.  exchanges: the responses received so far, each *)
(* with the jar that absorbed its cookies.                                 *)
JarInit ==
    /\ jarHeap = <<>>
    /\ sessionJar = [region \in JarRegions |-> 0]
    /\ query = <<>>
    /\ exchanges = <<>>

(* refreshSessionInternal when the page is fetched and parsed:             *)
(* fetchTemplate makes a jar and absorbs the cookies of the page, and the  *)
(* jar becomes session.cookies                                             *)
RefreshSessionJar(region, setCookieHeaders) ==
    /\ Len(exchanges) < MaxExchanges
    /\ jarHeap' = Append(jarHeap, absorb(<<>>, setCookieHeaders))
    /\ sessionJar' = [sessionJar EXCEPT ![region] = Len(jarHeap) + 1]
    /\ exchanges' = Append(exchanges, [jar |-> Len(jarHeap) + 1, headers |-> setCookieHeaders])
    /\ UNCHANGED query
    /\ UNCHANGED <<facadeVars, registryVars, retryVars, compressVars, evalVars, parseVars, restVars>>

(* getStatus up to the fetch of fetchBuildingStatuses *)
SendStatusQuery(region) ==
    /\ query = <<>>
    /\ sessionJar[region] # 0
    /\ query' = <<[region |-> region, cookies |-> sessionJar[region],
                   cookie |-> getFiltered(jarHeap[sessionJar[region]], region)]>>
    /\ UNCHANGED <<jarHeap, sessionJar, exchanges>>
    /\ UNCHANGED <<facadeVars, registryVars, retryVars, compressVars, evalVars, parseVars, restVars>>

(* the response of the status query: its cookies are absorbed into the jar *)
(* the query was given                                                     *)
ReceiveStatusResponse(setCookieHeaders) ==
    /\ query # <<>>
    /\ Len(exchanges) < MaxExchanges
    /\ jarHeap' = Absorbed(jarHeap, query[1].cookies, setCookieHeaders)
    /\ exchanges' = Append(exchanges, [jar |-> query[1].cookies, headers |-> setCookieHeaders])
    /\ query' = <<>>
    /\ UNCHANGED sessionJar
    /\ UNCHANGED <<facadeVars, registryVars, retryVars, compressVars, evalVars, parseVars, restVars>>

JarNext ==
    \/ \E region \in JarRegions, hs \in SetCookieLists : RefreshSessionJar(region, hs)
    \/ \E region \in JarRegions : SendStatusQuery(region)
    \/ \E hs \in SetCookieLists : ReceiveStatusResponse(hs)

----------------------------------------------------------------------------
(* Part 8: errorToHttpStatus, handleServiceError, unwrapRetryError *)

(* response.status of a failed upstream response: fetchTemplate and        *)
(* fetchBuildingStatuses put it into the NetworkError of any response that *)
(* is not ok                                                               *)
UpstreamStatuses == {401, 403, 404, 429, 500, 503}

ParseTypes == {"csrf", "discon_streets", "discon_fact", "template", "json"}

SessionReasons == {"expired", "invalid", "missing", "auth_failed", "refresh_failed"}

(* the cases of DtekError with the fields the mapping can read; an         *)
(* optional field is <<>> when absent                                      *)
DtekErrors ==
    [code : {"NETWORK_ERROR"}, httpStatus : Optional(UpstreamStatuses)]
        \cup [code : {"PARSE_ERROR"}, parseType : ParseTypes]
        \cup [code : {"SESSION_ERROR"}, reason : SessionReasons, httpStatus : Optional({401})]
        \cup [code : {"VALIDATION_ERROR"}, field : {"city"}]
        \cup [code : {"REGION_UNAVAILABLE"}, region : Optional({"kem"})]

(* what withRetry fails with when it gives up *)
ExhaustedErrors ==
    [code : {"RETRY_EXHAUSTED"}, attempts : 1..(MaxDelays + 1), lastError : DtekErrors]

errorToHttpStatus(error) ==
    CASE error.code = "NETWORK_ERROR" ->
            IF error.httpStatus # <<>> THEN error.httpStatus[1] ELSE 503
      [] error.code = "PARSE_ERROR" -> 502
      [] error.code = "SESSION_ERROR" -> IF error.reason = "auth_failed" THEN 401 ELSE 503
      [] error.code = "VALIDATION_ERROR" -> 400
      [] error.code = "REGION_UNAVAILABLE" -> 503
      [] OTHER -> 500

unwrapRetryError(error) ==
    IF "lastError" \in DOMAIN error /\ error.code = "RETRY_EXHAUSTED"
    THEN error.lastError
    ELSE error

(* json({error, message}, {status}) *)
handleServiceError(error) ==
    [error |-> error.code, status |-> errorToHttpStatus(error)]

BoundaryInit == response = <<>>

(* a route whose operation failed with error: the routes of the service    *)
(* operations hand the error to handleServiceError as it is                *)
RouteFails(error) ==
    /\ response' = <<[route |-> "status", failure |-> error, of |-> error, json |-> handleServiceError(error)]>>
    /\ UNCHANGED <<facadeVars, registryVars, retryVars, compressVars, evalVars, parseVars,
                   jarVars, addressVars, citiesVars, awaitVars>>

(* a route that runs its operation under withRetry unwraps the error first *)
RetriedRouteFails(error) ==
    /\ response' = <<[route |-> "cities", failure |-> error, of |-> unwrapRetryError(error),
                      json |-> handleServiceError(unwrapRetryError(error))]>>
    /\ UNCHANGED <<facadeVars, registryVars, retryVars, compressVars, evalVars, parseVars,
                   jarVars, addressVars, citiesVars, awaitVars>>

BoundaryNext ==
    \/ \E error \in DtekErrors : RouteFails(error)
    \/ \E error \in DtekErrors \cup ExhaustedErrors : RetriedRouteFails(error)

----------------------------------------------------------------------------
(* Part 9: addressStatusStore *)

AddressIds == 1..NumAddresses

CACHE_TTL_MS == 5 * 60 * 1000

(* The instants of the browser clock: a start long after the epoch, then   *)
(* 1 ms later, then 5 minutes after each of the two, and so on.            *)
StoreStart == 2 * CACHE_TTL_MS

StoreInstant(i) == StoreStart + (i \div 2) * CACHE_TTL_MS + (i % 2)

NextStoreInstant(t) ==
    IF (t - StoreStart) % CACHE_TTL_MS = 0 THEN t + 1 ELSE t - 1 + CACHE_TTL_MS

(* response.buildings[building]: the status of the building, when the      *)
(* response has it                                                         *)
BuildingStatuses == {"on"}

StatusCacheEntry(status, fetchedAt, loading, error) ==
    [status |-> status, fetchedAt |-> fetchedAt, loading |-> loading, error |-> error]

isStale_AtTtl(entry, t) == t - entry.fetchedAt >= CACHE_TTL_MS

(* isStale, with Date.now() = t *)
isStale(entry, t) == t - entry.fetchedAt > CACHE_TTL_MS

(* the test of fetchStatus: a cache hit that is not stale and has no error *)
SkipsFetch(cachedEntry, t) ==
    cachedEntry # <<>> /\ ~isStale(cachedEntry[1], t) /\ cachedEntry[1].error = <<>>

(* cachedEntry?.status || null and cachedEntry?.fetchedAt || 0 *)
StatusOf(cachedEntry) == IF cachedEntry = <<>> THEN <<>> ELSE cachedEntry[1].status

FetchedAtOf(cachedEntry) == IF cachedEntry = <<>> THEN 0 ELSE cachedEntry[1].fetchedAt

(* what the API client settles a request with *)
ApiResults(startedAt, t) ==
    [ok : {TRUE}, status : Optional(BuildingStatuses), fetchedAt : {startedAt, t}]
        \cup [ok : {FALSE}, message : {"dtekUnavailable"}]

StoreCall(op, id) == [op |-> op, id |-> id]

StoreInit ==
    /\ addressCache = [id \in AddressIds |-> <<>>]
    /\ inFlight = {}
    /\ storeNow = StoreStart
    /\ storeCalls = 0
    /\ lastCall = StoreCall("", 0)
    /\ writer = [id \in AddressIds |-> 0]
    /\ invalidated = [id \in AddressIds |-> <<>>]

(* the part of fetchStatus and of refreshStatus from the loading state to  *)
(* the await of fetchBuildingStatuses                                      *)
StartsRequest(op, id, cachedEntry) ==
    /\ addressCache' = [addressCache EXCEPT ![id] =
            <<StatusCacheEntry(StatusOf(cachedEntry), FetchedAtOf(cachedEntry), TRUE, <<>>)>>]
    /\ inFlight' = inFlight \cup {[n |-> storeCalls + 1, op |-> op, id |-> id,
                                     cachedEntry |-> cachedEntry, startedAt |-> storeNow]}
    /\ writer' = [writer EXCEPT ![id] = storeCalls + 1]

(* fetchStatus(address) up to its return or its await *)
fetchStatus(id) ==
    /\ storeCalls < MaxStoreCalls
    /\ storeCalls' = storeCalls + 1
    /\ lastCall' = StoreCall("fetchStatus", id)
    /\ IF SkipsFetch(addressCache[id], storeNow)
       THEN UNCHANGED <<addressCache, inFlight, writer>>
       ELSE StartsRequest("fetchStatus", id, addressCache[id])
    /\ UNCHANGED <<storeNow, invalidated>>
    /\ UNCHANGED <<facadeVars, registryVars, retryVars, compressVars, evalVars, parseVars,
                   jarVars, boundaryVars, citiesVars, awaitVars>>

(* refreshStatus(addressId, address) up to its await *)
refreshStatus(id) ==
    /\ storeCalls < MaxStoreCalls
    /\ storeCalls' = storeCalls + 1
    /\ lastCall' = StoreCall("refreshStatus", id)
    /\ StartsRequest("refreshStatus", id, addressCache[id])
    /\ UNCHANGED <<storeNow, invalidated>>
    /\ UNCHANGED <<facadeVars, registryVars, retryVars, compressVars, evalVars, parseVars,
                   jarVars, boundaryVars, citiesVars, awaitVars>>

(* the rest of fetchStatus or refreshStatus once fetchBuildingStatuses has *)
(* settled with res: the two are the same from the await on                *)
RequestSettles(r, res) ==
    /\ r \in inFlight
    /\ inFlight' = inFlight \ {r}
    /\ addressCache' = [addressCache EXCEPT ![r.id] =
            IF res.ok
            THEN <<StatusCacheEntry(res.status, res.fetchedAt, FALSE, <<>>)>>
            ELSE <<StatusCacheEntry(StatusOf(r.cachedEntry), FetchedAtOf(r.cachedEntry),
                                    FALSE, <<res.message>>)>>]
    /\ writer' = [writer EXCEPT ![r.id] = r.n]
    /\ UNCHANGED <<storeNow, storeCalls, lastCall, invalidated>>
    /\ UNCHANGED <<facadeVars, registryVars, retryVars, compressVars, evalVars, parseVars,
                   jarVars, boundaryVars, citiesVars, awaitVars>>

(* invalidate(addressId) *)
invalidate(id) ==
    /\ storeCalls < MaxStoreCalls
    /\ storeCalls' = storeCalls + 1
    /\ lastCall' = StoreCall("invalidate", id)
    /\ addressCache' = [addressCache EXCEPT ![id] = <<>>]
    /\ writer' = [writer EXCEPT ![id] = 0]
    /\ invalidated' = [invalidated EXCEPT ![id] = <<storeCalls>>]
    /\ UNCHANGED <<inFlight, storeNow>>
    /\ UNCHANGED <<facadeVars, registryVars, retryVars, compressVars, evalVars, parseVars,
                   jarVars, boundaryVars, citiesVars, awaitVars>>

(* clearCache() *)
clearCache ==
    /\ storeCalls < MaxStoreCalls
    /\ storeCalls' = storeCalls + 1
    /\ lastCall' = StoreCall("clearCache", 0)
    /\ addressCache' = [id \in AddressIds |-> <<>>]
    /\ writer' = [id \in AddressIds |-> 0]
    /\ UNCHANGED <<inFlight, storeNow, invalidated>>
    /\ UNCHANGED <<facadeVars, registryVars, retryVars, compressVars, evalVars, parseVars,
                   jarVars, boundaryVars, citiesVars, awaitVars>>

(* time passes in the browser *)
StoreTick ==
    /\ NextStoreInstant(storeNow) <= StoreInstant(MaxStoreTicks)
    /\ storeNow' = NextStoreInstant(storeNow)
    /\ UNCHANGED <<addressCache, inFlight, storeCalls, lastCall, writer, invalidated>>
    /\ UNCHANGED <<facadeVars, registryVars, retryVars, compressVars, evalVars, parseVars,
                   jarVars, boundaryVars, citiesVars, awaitVars>>

RequestSettle ==
    \E r \in inFlight : \E res \in ApiResults(r.startedAt, storeNow) : RequestSettles(r, res)

StoreNext ==
    \/ \E id \in AddressIds : fetchStatus(id)
    \/ \E id \in AddressIds : refreshStatus(id)
    \/ RequestSettle
    \/ \E id \in AddressIds : invalidate(id)
    \/ clearCache
    \/ StoreTick

----------------------------------------------------------------------------
(* Part 10: citiesStore *)

DEFAULT_REGION == "kem"

(* the list /api/cities returns for a region *)
CitiesOf(region) == <<region>>

CitiesState(region, cities, loading, error, regionError, fetched) ==
    [region |-> region, cities |-> cities, loading |-> loading, error |-> error,
     regionError |-> regionError, fetched |-> fetched]

(* what fetchCities settles with *)
CitiesResults(region) ==
    [ok : {TRUE}, value : {CitiesOf(region)}]
        \cup [ok : {FALSE}, code : {"REGION_UNAVAILABLE", "SERVER_ERROR"}, message : {"message"}]

CitiesInit ==
    /\ citiesState = CitiesState(DEFAULT_REGION, <<>>, FALSE, <<>>, <<>>, FALSE)
    /\ citiesRequests = {}
    /\ citiesCalls = 0

(* the test of prefetch: same region and already fetched, loading or failed *)
SkipsPrefetch(state, region) ==
    /\ state.region = region
    /\ state.fetched \/ state.loading \/ state.error # <<>> \/ state.regionError # <<>>

(* the first update of prefetch and of refresh, and the await of fetchCities *)
StartsCitiesRequest(op, region) ==
    /\ citiesState' = [citiesState EXCEPT !.region = region, !.loading = TRUE,
                                            !.error = <<>>, !.regionError = <<>>]
    /\ citiesRequests' = citiesRequests \cup {[n |-> citiesCalls + 1, op |-> op, region |-> region]}

(* prefetch(region) up to its return or its await *)
prefetch(region) ==
    /\ citiesCalls < MaxCitiesCalls
    /\ citiesCalls' = citiesCalls + 1
    /\ IF SkipsPrefetch(citiesState, region)
       THEN UNCHANGED <<citiesState, citiesRequests>>
       ELSE StartsCitiesRequest("prefetch", region)
    /\ UNCHANGED <<facadeVars, registryVars, retryVars, compressVars, evalVars, parseVars,
                   jarVars, boundaryVars, addressVars, awaitVars>>

(* refresh(region) up to its await *)
refresh(region) ==
    /\ citiesCalls < MaxCitiesCalls
    /\ citiesCalls' = citiesCalls + 1
    /\ StartsCitiesRequest("refresh", region)
    /\ UNCHANGED <<facadeVars, registryVars, retryVars, compressVars, evalVars, parseVars,
                   jarVars, boundaryVars, addressVars, awaitVars>>

(* the rest of prefetch or refresh once fetchCities has settled with res:  *)
(* the two are the same from the await on                                  *)
CitiesSettles(r, res) ==
    /\ r \in citiesRequests
    /\ citiesRequests' = citiesRequests \ {r}
    /\ citiesState' =
            IF res.ok
            THEN CitiesState(r.region, res.value, FALSE, <<>>, <<>>, TRUE)
            ELSE IF res.code = "REGION_UNAVAILABLE"
                 THEN [citiesState EXCEPT !.loading = FALSE, !.error = <<>>,
                                          !.regionError = <<res.message>>]
                 ELSE [citiesState EXCEPT !.loading = FALSE, !.error = <<res.message>>,
                                          !.regionError = <<>>]
    /\ UNCHANGED citiesCalls
    /\ UNCHANGED <<facadeVars, registryVars, retryVars, compressVars, evalVars, parseVars,
                   jarVars, boundaryVars, addressVars, awaitVars>>

(* reset() *)
reset ==
    /\ citiesCalls < MaxCitiesCalls
    /\ citiesCalls' = citiesCalls + 1
    /\ citiesState' = [citiesState EXCEPT !.error = <<>>, !.regionError = <<>>]
    /\ UNCHANGED citiesRequests
    /\ UNCHANGED <<facadeVars, registryVars, retryVars, compressVars, evalVars, parseVars,
                   jarVars, boundaryVars, addressVars, awaitVars>>

CitiesSettle ==
    \E r \in citiesRequests : \E res \in CitiesResults(r.region) : CitiesSettles(r, res)

CitiesNext ==
    \/ \E region \in Regions : prefetch(region)
    \/ \E region \in Regions : refresh(region)
    \/ CitiesSettle
    \/ reset

----------------------------------------------------------------------------
(* Part 11: DtekService at the grain of await.                             *)
(* A call runs the synchronous prefix of the operation: for every          *)
(* operation but refreshSession that is ensureSession up to its return or  *)
(* its await.  `await this.ensureSession()` resumes the operation in a     *)
(* microtask, one tick after ensureSession's promise is resolved, so other *)
(* code can run before the operation reads this.session.  Microtasks run   *)
(* in order; a network response is delivered only when none is waiting.    *)
(* Callers call from tasks of their own: a task may call several           *)
(* operations one after the other, and no task starts while microtasks     *)
(* are being run.                                                          *)
(* The cache of point queries is left out: a hit returns before            *)
(* ensureSession is called.                                                *)

AwaitOps == {"getCities", "getStreets", "getStatus", "refreshSession"}

AwaitInit ==
    /\ held = <<>>
    /\ heldLive = FALSE
    /\ refreshPromise = "null"
    /\ issued = 0
    /\ awaiters = <<>>
    /\ microtasks = <<>>
    /\ draining = FALSE
    /\ stage = [c \in Callers |-> "idle"]
    /\ called = [c \in Callers |-> ""]
    /\ returned = [c \in Callers |-> <<>>]

(* the operation o is called by c.  refreshSession calls clearSession      *)
(* first.  ensureSession: with a valid session it returns ok, and the      *)
(* operation resumes in a microtask; with a refresh in progress it returns *)
(* that promise; otherwise it starts refreshSessionInternal and awaits it. *)
Calls(c, o) ==
    LET cleared == o = "refreshSession"
        valid == ~cleared /\ held # <<>> /\ heldLive
    IN  /\ stage[c] \in {"idle", "done"}
        /\ ~draining
        /\ UNCHANGED draining
        /\ called' = [called EXCEPT ![c] = o]
        /\ returned' = [returned EXCEPT ![c] = <<>>]
        /\ held' = IF cleared THEN <<>> ELSE held
        /\ heldLive' = IF cleared THEN FALSE ELSE heldLive
        /\ IF valid
           THEN /\ stage' = [stage EXCEPT ![c] = "resumes"]
                /\ microtasks' = Append(microtasks, [c |-> c, sessionResult |-> "ok"])
                /\ UNCHANGED <<refreshPromise, issued, awaiters>>
           ELSE /\ stage' = [stage EXCEPT ![c] = "ensureSession"]
                /\ awaiters' = Append(awaiters, c)
                /\ UNCHANGED microtasks
                /\ IF refreshPromise = "pending"
                   THEN UNCHANGED <<refreshPromise, issued>>
                   ELSE /\ issued < MaxFetches
                        /\ refreshPromise' = "pending"
                        /\ issued' = issued + 1
        /\ UNCHANGED <<facadeVars, registryVars, retryVars, compressVars, evalVars, parseVars,
                       jarVars, boundaryVars, addressVars, citiesVars>>

(* the directory-page fetch settles: refreshSessionInternal installs the   *)
(* session or clears it, the `finally` of ensureSession drops the promise, *)
(* and the operations awaiting it are resumed in the order they began to   *)
(* await                                                                   *)
RefreshDelivered(good) ==
    /\ refreshPromise = "pending"
    /\ microtasks = <<>>
    /\ held' = IF good THEN <<issued>> ELSE <<>>
    /\ heldLive' = good
    /\ refreshPromise' = "null"
    /\ microtasks' = [i \in 1..Len(awaiters) |->
                        [c |-> awaiters[i], sessionResult |-> IF good THEN "ok" ELSE "err"]]
    /\ awaiters' = <<>>
    /\ draining' = (awaiters # <<>>)
    /\ stage' = [c \in Callers |-> IF stage[c] = "ensureSession" THEN "resumes" ELSE stage[c]]
    /\ UNCHANGED <<issued, called, returned>>
    /\ UNCHANGED <<facadeVars, registryVars, retryVars, compressVars, evalVars, parseVars,
                   jarVars, boundaryVars, addressVars, citiesVars>>

(* the first microtask runs: the operation after `await ensureSession()`.  *)
(* refreshSession returns what ensureSession gave; the others return a     *)
(* failed sessionResult, then test `if (!this.session)`, and getStatus     *)
(* goes on to its status query                                             *)
Resumes ==
    /\ microtasks # <<>>
    /\ LET c == Head(microtasks).c
           sessionResult == Head(microtasks).sessionResult
           outcome == IF called[c] = "refreshSession" \/ sessionResult # "ok" THEN sessionResult
                      ELSE IF held = <<>> THEN "Session is not available after refresh"
                      ELSE IF called[c] = "getStatus" THEN "" ELSE "ok"
       IN  /\ microtasks' = Tail(microtasks)
           /\ draining' = (Tail(microtasks) # <<>>)
           /\ stage' = [stage EXCEPT ![c] = IF outcome = "" THEN "fetchBuildingStatuses" ELSE "done"]
           /\ returned' = [returned EXCEPT ![c] = IF outcome = "" THEN <<>> ELSE <<outcome>>]
    /\ UNCHANGED <<held, heldLive, refreshPromise, issued, awaiters, called>>
    /\ UNCHANGED <<facadeVars, registryVars, retryVars, compressVars, evalVars, parseVars,
                   jarVars, boundaryVars, addressVars, citiesVars>>

(* the status query of c settles: an authentication failure clears the     *)
(* session                                                                 *)
QueryDelivered(c, outcome) ==
    /\ stage[c] = "fetchBuildingStatuses"
    /\ microtasks = <<>>
    /\ stage' = [stage EXCEPT ![c] = "done"]
    /\ returned' = [returned EXCEPT ![c] = <<outcome>>]
    /\ held' = IF outcome = "auth" THEN <<>> ELSE held
    /\ heldLive' = IF outcome = "auth" THEN FALSE ELSE heldLive
    /\ UNCHANGED <<refreshPromise, issued, awaiters, microtasks, draining, called>>
    /\ UNCHANGED <<facadeVars, registryVars, retryVars, compressVars, evalVars, parseVars,
                   jarVars, boundaryVars, addressVars, citiesVars>>

(* the session comes to the end of its hour *)
SessionExpires ==
    /\ held # <<>>
    /\ heldLive
    /\ heldLive' = FALSE
    /\ UNCHANGED <<held, refreshPromise, issued, awaiters, microtasks, draining, stage, called, returned>>
    /\ UNCHANGED <<facadeVars, registryVars, retryVars, compressVars, evalVars, parseVars,
                   jarVars, boundaryVars, addressVars, citiesVars>>

AwaitNext ==
    \/ \E c \in Callers, o \in AwaitOps : Calls(c, o)
    \/ \E good \in BOOLEAN : RefreshDelivered(good)
    \/ Resumes
    \/ \E c \in Callers, outcome \in {"ok", "auth", "err"} : QueryDelivered(c, outcome)
    \/ SessionExpires

----------------------------------------------------------------------------
(* DtekService: operations *)

Request(o, city, street) == [op |-> o, city |-> city, street |-> street]

NoRequest == Request("", "", "")

Init ==
    /\ now = 0
    /\ session = <<>>
    /\ sessionExpiresAt = 0
    /\ sessionRefreshPromise = "null"
    /\ statusCache = EmptyCache
    /\ jars = [k \in 1..MaxFetches |-> {}]
    /\ fetching = {}
    /\ fetchCount = 0
    /\ refreshOutcome = "none"
    /\ pc = [c \in Callers |-> "idle"]
    /\ req = [c \in Callers |-> NoRequest]
    /\ sent = [c \in Callers |-> <<>>]
    /\ result = [c \in Callers |-> <<>>]
    /\ cacheHit = [c \in Callers |-> FALSE]
    /\ RegistryInit
    /\ RetryInit
    /\ CompressInit
    /\ EvalInit
    /\ ParseInit
    /\ JarInit
    /\ BoundaryInit
    /\ StoreInit
    /\ CitiesInit
    /\ AwaitInit

(* The callers' side of a step.  `moved` maps the callers that run in this  *)
(* step to where they stand after it.  A caller that stood at "done" has    *)
(* consumed its result by the next step and is idle again: a result is      *)
(* visible in the state that follows the step that produced it.             *)
Run(moved) ==
    LET ran == DOMAIN moved
        over(c) == c \notin ran /\ pc[c] = "done"
    IN  /\ pc' = [c \in Callers |->
                    IF c \in ran THEN moved[c].pc ELSE IF over(c) THEN "idle" ELSE pc[c]]
        /\ req' = [c \in Callers |->
                    IF c \in ran THEN moved[c].req ELSE IF over(c) THEN NoRequest ELSE req[c]]
        /\ sent' = [c \in Callers |->
                    IF c \in ran THEN moved[c].sent ELSE IF over(c) THEN <<>> ELSE sent[c]]
        /\ result' = [c \in Callers |->
                    IF c \in ran THEN moved[c].result ELSE IF over(c) THEN <<>> ELSE result[c]]
        /\ cacheHit' = [c \in Callers |->
                    IF c \in ran THEN moved[c].cacheHit ELSE FALSE]

At(rq, nx, hit) ==
    [pc |-> nx.pc, req |-> rq, sent |-> nx.sent, result |-> nx.result, cacheHit |-> hit]

Awaiting == [pc |-> "ensureSession", result |-> <<>>, sent |-> <<>>]

RefreshInProgress_NoLock == FALSE

(* ensureSession's test `if (this.sessionRefreshPromise)` *)
RefreshInProgress == sessionRefreshPromise = "pending"

(* ensureSession, called by c with the store S in place, up to its first   *)
(* suspension: the fast path returns at once and the operation continues   *)
(* to its own next suspension; otherwise c awaits the shared promise,      *)
(* which c creates (issuing the directory-page fetch) unless one exists.   *)
ensureSession(c, rq, S) ==
    /\ session' = S.session
    /\ sessionExpiresAt' = S.expiresAt
    /\ IF SessionValid(S, now)
       THEN /\ Run([d \in {c} |-> At(rq, AfterEnsureSession(rq, Ok(Void), S), FALSE)])
            /\ UNCHANGED <<sessionRefreshPromise, fetching, fetchCount>>
       ELSE /\ Run([d \in {c} |-> At(rq, Awaiting, FALSE)])
            /\ IF RefreshInProgress
               THEN UNCHANGED <<sessionRefreshPromise, fetching, fetchCount>>
               ELSE /\ fetchCount < MaxFetches
                    /\ sessionRefreshPromise' = "pending"
                    /\ fetchCount' = fetchCount + 1
                    /\ fetching' = fetching \cup {fetchCount + 1}
    /\ jars' = Reachable(jars, session', sent')
    /\ UNCHANGED <<refreshOutcome, registryVars, retryVars, compressVars,
                   evalVars, parseVars, jarVars, restVars>>

(* a caller is free to call an operation *)
Free(c) == pc[c] \in {"idle", "done"}

getCities(c) ==
    /\ Free(c)
    /\ ensureSession(c, Request("getCities", "", ""), Current)
    /\ UNCHANGED <<now, statusCache>>

getStreets(c, city) ==
    /\ Free(c)
    /\ ensureSession(c, Request("getStreets", city, ""), Current)
    /\ UNCHANGED <<now, statusCache>>

getSchedules(c) ==
    /\ Free(c)
    /\ ensureSession(c, Request("getSchedules", "", ""), Current)
    /\ UNCHANGED <<now, statusCache>>

refreshSession(c) ==
    /\ Free(c)
    /\ ensureSession(c, Request("refreshSession", "", ""), clearSession)
    /\ UNCHANGED <<now, statusCache>>

(* getStatus up to its first suspension: the cache lookup, then            *)
(* ensureSession and, on the fast path, the status query.                  *)
getStatus(c, city, street) ==
    LET cacheKey == CacheKey(city, street)
        rq == Request("getStatus", city, street)
    IN  /\ Free(c)
        /\ IF CacheLive(statusCache, cacheKey, now)
           THEN /\ Run([d \in {c} |-> At(rq, Settled(Ok(statusCache[cacheKey][1].data)), TRUE)])
                /\ jars' = Reachable(jars, session, sent')
                /\ UNCHANGED <<session, sessionExpiresAt, sessionRefreshPromise, statusCache,
                               fetching, fetchCount, refreshOutcome,
                               registryVars, retryVars, compressVars,
                                              evalVars, parseVars, jarVars, restVars>>
           ELSE /\ statusCache' = CacheAfterGet(statusCache, cacheKey, now)
                /\ ensureSession(c, rq, Current)
        /\ UNCHANGED now

(* The directory-page fetch k settles with resp.  Runs to completion:      *)
(* refreshSessionInternal's tail, the `finally` of the ensureSession that  *)
(* created the promise, then every operation awaiting the promise, each    *)
(* up to its next suspension.                                              *)
RefreshSettles(k, resp) ==
    LET r == refreshSessionInternal(resp, Current, now)
        waiting == {c \in Callers : pc[c] = "ensureSession"}
    IN  /\ k \in fetching
        /\ fetching' = fetching \ {k}
        /\ session' = r.store.session
        /\ sessionExpiresAt' = r.store.expiresAt
        /\ sessionRefreshPromise' = "null"
        /\ refreshOutcome' = r.result.kind
        /\ Run([c \in waiting |->
                    At(req[c], AfterEnsureSession(req[c], r.result, r.store), FALSE)])
        /\ jars' = Reachable(IF r.result.kind = "ok"
                                THEN [jars EXCEPT ![k] = TemplateCookies]
                                ELSE jars,
                             session', sent')
        /\ UNCHANGED <<now, statusCache, fetchCount, registryVars, retryVars, compressVars,
                       evalVars, parseVars, jarVars, restVars>>

RefreshSettle == \E k \in fetching : \E resp \in TemplateResponses(k) : RefreshSettles(k, resp)

StatusSettles_CachesFailure(c, resp) ==
    LET fetchResult == fetchBuildingStatuses(req[c], resp)
        cacheKey == CacheKey(req[c].city, req[c].street)
    IN  /\ pc[c] = "fetchBuildingStatuses"
        /\ IF fetchResult.kind # "ok" /\ isAuthError(fetchResult)
           THEN /\ session' = clearSession.session
                /\ sessionExpiresAt' = clearSession.expiresAt
           ELSE UNCHANGED <<session, sessionExpiresAt>>
        /\ statusCache' = CacheAfterSet(statusCache, cacheKey, fetchResult.value, now)
        /\ Run([d \in {c} |-> At(req[c], Settled(fetchResult), FALSE)])
        /\ jars' = Reachable(AbsorbStatus(jars, sent[c][1].cookies, resp), session', sent')
        /\ UNCHANGED <<now, sessionRefreshPromise, fetching, fetchCount, refreshOutcome,
                       registryVars, retryVars, compressVars, evalVars, parseVars, jarVars, restVars>>

(* getStatus from the point where its status query settles with resp *)
StatusSettles(c, resp) ==
    LET fetchResult == fetchBuildingStatuses(req[c], resp)
        cacheKey == CacheKey(req[c].city, req[c].street)
    IN  /\ pc[c] = "fetchBuildingStatuses"
        /\ IF fetchResult.kind # "ok"
           THEN /\ IF isAuthError(fetchResult)
                   THEN /\ session' = clearSession.session
                        /\ sessionExpiresAt' = clearSession.expiresAt
                   ELSE UNCHANGED <<session, sessionExpiresAt>>
                /\ UNCHANGED statusCache
           ELSE /\ statusCache' = CacheAfterSet(statusCache, cacheKey, fetchResult.value, now)
                /\ UNCHANGED <<session, sessionExpiresAt>>
        /\ Run([d \in {c} |-> At(req[c], Settled(fetchResult), FALSE)])
        /\ jars' = Reachable(AbsorbStatus(jars, sent[c][1].cookies, resp), session', sent')
        /\ UNCHANGED <<now, sessionRefreshPromise, fetching, fetchCount, refreshOutcome,
                       registryVars, retryVars, compressVars,
                                      evalVars, parseVars, jarVars, restVars>>

StatusSettle == \E c \in Callers : \E resp \in StatusResponses : StatusSettles(c, resp)

(* time passes *)
Tick ==
    /\ NextInstant(now) <= MaxNow
    /\ now' = NextInstant(now)
    /\ Run(<<>>)
    /\ UNCHANGED <<session, sessionExpiresAt, sessionRefreshPromise, statusCache, jars,
                   fetching, fetchCount, refreshOutcome,
                   registryVars, retryVars, compressVars,
                                  evalVars, parseVars, jarVars, restVars>>

CallGetCities == \E c \in Callers : getCities(c)
CallGetStreets == \E c \in Callers : \E city \in Cities : getStreets(c, city)
CallGetSchedules == \E c \in Callers : getSchedules(c)
CallGetStatus == \E c \in Callers : \E p \in Pairs : getStatus(c, p[1], p[2])
CallRefreshSession == \E c \in Callers : refreshSession(c)

Next ==
    \/ CallGetCities
    \/ CallGetStreets
    \/ CallGetSchedules
    \/ CallGetStatus
    \/ CallRefreshSession
    \/ RefreshSettle
    \/ StatusSettle
    \/ Tick

Spec == Init /\ [][Next]_vars

RegistrySpec == Init /\ [][RegistryNext]_vars

RetrySpec == Init /\ [][RetryNext]_vars

CompressSpec == Init /\ [][CompressNext]_vars

EvalSpec == Init /\ [][EvalNext]_vars

ParseSpec == Init /\ [][ParseNext]_vars

JarSpec == Init /\ [][JarNext]_vars

BoundarySpec == Init /\ [][BoundaryNext]_vars

StoreSpec == Init /\ [][StoreNext]_vars

CitiesSpec == Init /\ [][CitiesNext]_vars

AwaitSpec == Init /\ [][AwaitNext]_vars

----------------------------------------------------------------------------
(* Vocabulary of the properties *)

(* c calls an operation in this step *)
CallStep(c) == pc[c] \in {"idle", "done"} /\ pc'[c] # "idle"

(* the shared refresh promise settles in this step *)
SettleStep == sessionRefreshPromise = "pending" /\ sessionRefreshPromise' = "null"

(* c issues a status query in this step *)
QueryStep(c) == pc[c] # "fetchBuildingStatuses" /\ pc'[c] = "fetchBuildingStatuses"

Awaiters == {c \in Callers : pc[c] = "ensureSession"}

OneHour == 60 * 60 * 1000
TenMinutes == 10 * 60 * 1000

----------------------------------------------------------------------------
C1_OneInFlight ==
    /\ Cardinality(fetching) <= 1
    /\ (sessionRefreshPromise = "pending") <=> (fetching # {})
    /\ (Awaiters # {} => fetching = {fetchCount})

C1_CallIssuesAtMostOne ==
    \A c \in Callers :
        CallStep(c) =>
            IF sessionRefreshPromise = "pending"
            THEN fetchCount' = fetchCount /\ fetching' = fetching
            ELSE fetchCount' \in {fetchCount, fetchCount + 1}

(* C1: at every instant at most one directory-page fetch is in flight; a   *)
(* fetch is in flight exactly while the refresh handle is set; every       *)
(* operation that awaits session establishment, however many there are,    *)
(* awaits that one fetch; and an operation started while a refresh is      *)
(* running issues no fetch (one started otherwise issues at most one).     *)
C1_SingleFlight == [](C1_OneInFlight) /\ [][C1_CallIssuesAtMostOne]_vars

(* two operations of different kinds await one refresh, one fetch issued *)
C1_Witness ==
    /\ Cardinality(Awaiters) >= 2
    /\ \E c, d \in Awaiters : req[c].op = "getStatus" /\ req[d].op = "refreshSession"
    /\ fetchCount = 1
    /\ fetching = {1}

(* C2: when the refresh in flight settles, no second fetch is issued and   *)
(* all operations awaiting it get its outcome: after a success (the        *)
(* session installed is the one of this fetch) each of them proceeds with  *)
(* that session, after a failure each of them ends with one and the same   *)
(* failure.                                                                *)
C2_ProceedsWith(c, k) ==
    IF req[c].op = "getStatus"
    THEN /\ pc'[c] = "fetchBuildingStatuses"
         /\ sent'[c] = <<[csrf |-> k, updateFact |-> k, cookies |-> k]>>
    ELSE /\ pc'[c] = "done"
         /\ result'[c] # <<>>
         /\ result'[c][1].kind = "ok"
         /\ (req[c].op # "refreshSession" => result'[c][1].value.origin = k)

C2_SharedOutcome ==
    [][SettleStep =>
        /\ fetchCount' = fetchCount
        /\ fetching' = {}
        /\ IF session' # <<>> /\ session'[1].templateData.origin = fetchCount
           THEN \A c \in Awaiters : C2_ProceedsWith(c, fetchCount)
           ELSE /\ \A c \in Awaiters :
                    /\ pc'[c] = "done"
                    /\ result'[c] # <<>>
                    /\ result'[c][1].kind # "ok"
                /\ \A c, d \in Awaiters : result'[c] = result'[d]
    ]_vars

(* two operations of different kinds have ended with the same failure *)
C2_Witness ==
    \E c, d \in Callers :
        /\ c # d
        /\ pc[c] = "done" /\ pc[d] = "done"
        /\ req[c].op = "getCities" /\ req[d].op = "getStatus"
        /\ result[c] = result[d]
        /\ result[c][1].kind = "err"

(* the latest refresh ended without a session: with a failure value or     *)
(* with an exception                                                       *)
RefreshFailed == refreshOutcome \in {"err", "throw"}

(* C3 (amended): a failed refresh is not memoized.  When a refresh settles  *)
(* with a failure value the session is absent; however it fails, no valid  *)
(* session and no in-flight handle remain; and the next facade operation    *)
(* that is not a getStatus answered from the point-query cache starts a    *)
(* new refresh with a new directory-page fetch.                            *)
C3_NotMemoized ==
    [][/\ (SettleStep /\ refreshOutcome' # "ok") =>
            /\ fetching' = {}
            /\ (refreshOutcome' = "err" => session' = <<>> /\ sessionExpiresAt' = 0)
            /\ ~(session' # <<>> /\ now < sessionExpiresAt')
       /\ \A c \in Callers :
            (RefreshFailed /\ sessionRefreshPromise = "null" /\ CallStep(c) /\ ~cacheHit'[c]) =>
                /\ fetchCount' = fetchCount + 1
                /\ fetching' = {fetchCount + 1}
                /\ sessionRefreshPromise' = "pending"
                /\ pc'[c] = "ensureSession"
    ]_vars

(* the first refresh failed and an operation has started the second one *)
C3_Witness ==
    /\ refreshOutcome = "err"
    /\ session = <<>>
    /\ sessionRefreshPromise = "pending"
    /\ fetching = {2}
    /\ \E c \in Callers : pc[c] = "ensureSession" /\ req[c].op = "getCities"

(* C3 as stated: after a refresh that settled with a failure value, every  *)
(* next facade operation starts a new refresh with a new fetch.            *)
C3_Original ==
    [][\A c \in Callers :
        (refreshOutcome = "err" /\ sessionRefreshPromise = "null" /\ CallStep(c)) =>
            fetchCount' = fetchCount + 1
    ]_vars

(* C4 (amended): a successful refresh installs the session with expiry =   *)
(* install instant + one hour, and the expiry stays with the session; an   *)
(* operation other than refreshSession called strictly before the expiry   *)
(* of the session in place issues no directory-page fetch; an operation    *)
(* called at or after it, with no refresh running, starts a refresh unless *)
(* it is a getStatus answered from the point-query cache.                  *)
C4_Expiry ==
    [][/\ (SettleStep /\ refreshOutcome' = "ok") =>
            session' # <<>> /\ sessionExpiresAt' = now + OneHour
       /\ (session # <<>> /\ session' = session) => sessionExpiresAt' = sessionExpiresAt
       /\ \A c \in Callers :
            (CallStep(c) /\ req'[c].op # "refreshSession"
                    /\ session # <<>> /\ now < sessionExpiresAt) =>
                fetchCount' = fetchCount /\ fetching' = fetching
       /\ \A c \in Callers :
            (CallStep(c) /\ session # <<>> /\ now >= sessionExpiresAt
                    /\ sessionRefreshPromise = "null" /\ ~cacheHit'[c]) =>
                /\ fetchCount' = fetchCount + 1
                /\ sessionRefreshPromise' = "pending"
    ]_vars

(* the session installed at 0 has reached its expiry and an operation      *)
(* called at that very instant awaits the refresh it started               *)
C4_Witness ==
    /\ session # <<>>
    /\ session[1].templateData.origin = 1
    /\ now = sessionExpiresAt
    /\ now = OneHour
    /\ fetching = {2}
    /\ \E c \in Callers : pc[c] = "ensureSession" /\ req[c].op = "getStatus"

(* C4 as stated: the first operation called at or after the expiry         *)
(* triggers a refresh.                                                     *)
C4_Original ==
    [][\A c \in Callers :
        (CallStep(c) /\ session # <<>> /\ now >= sessionExpiresAt
                /\ sessionRefreshPromise = "null") =>
            fetchCount' = fetchCount + 1
    ]_vars

(* c has just returned the failure of a status query refused with 401/403 *)
AuthFailed(c) ==
    /\ pc[c] = "done"
    /\ req[c].op = "getStatus"
    /\ result[c] # <<>>
    /\ result[c][1].kind = "err"
    /\ result[c][1].code = "NETWORK_ERROR"
    /\ result[c][1].httpStatus \in {401, 403}

(* C5 (amended): when the status query fails with HTTP 401 or 403,         *)
(* getStatus clears the session in the step in which it returns that       *)
(* failure, expired or not; the operation called next awaits a refresh     *)
(* (a new one unless one is running) and sends no status query with the    *)
(* old credentials, unless it is a getStatus answered from the             *)
(* point-query cache.                                                      *)
C5_AuthFailureClears ==
    [][/\ (\E c \in Callers : pc[c] = "fetchBuildingStatuses" /\ AuthFailed(c)') =>
            session' = <<>> /\ sessionExpiresAt' = 0
       /\ \A c, d \in Callers :
            (AuthFailed(d) /\ CallStep(c) /\ ~cacheHit'[c]) =>
                /\ pc'[c] = "ensureSession"
                /\ sent'[c] = <<>>
                /\ sessionRefreshPromise' = "pending"
                /\ (sessionRefreshPromise = "null" => fetchCount' = fetchCount + 1)
    ]_vars

(* a 403 has just been returned while the only session ever installed was  *)
(* still within its hour, and the session is gone                          *)
C5_Witness ==
    /\ \E c \in Callers : AuthFailed(c) /\ result[c][1].httpStatus = 403
    /\ fetchCount = 1
    /\ refreshOutcome = "ok"
    /\ now < OneHour
    /\ session = <<>>

(* C5 as stated: after the failure the next operation begins with a        *)
(* refresh.                                                                *)
C5_Original ==
    [][\A c, d \in Callers :
        (AuthFailed(d) /\ CallStep(c)) =>
            pc'[c] = "ensureSession" /\ sessionRefreshPromise' = "pending"
    ]_vars

(* C6: every facade operation settles with a success value or a failure    *)
(* value; no exception reaches a caller.                                   *)
C6_NoException ==
    \A c \in Callers : result[c] # <<>> => result[c][1].kind \in {"ok", "err"}

(* C7: the session is one unit.  The token, the timestamp, the cookie jar   *)
(* and the directory of the session in place come from one successful      *)
(* refresh, whose cookies the jar holds; a status query in flight carries  *)
(* a token, a timestamp and a jar of one session; and a query is sent with *)
(* the credentials of the session in place when it is sent.                *)
C7_OneUnit ==
    /\ session # <<>> =>
        /\ session[1].csrf \in 1..fetchCount
        /\ session[1].updateFact = session[1].csrf
        /\ session[1].cookies = session[1].csrf
        /\ session[1].templateData.origin = session[1].csrf
        /\ TemplateCookies \subseteq jars[session[1].cookies]
    /\ \A c \in Callers :
        /\ (pc[c] = "fetchBuildingStatuses") <=> (sent[c] # <<>>)
        /\ sent[c] # <<>> =>
            /\ sent[c][1].updateFact = sent[c][1].csrf
            /\ sent[c][1].cookies = sent[c][1].csrf

C7_SentFromSessionInPlace ==
    \A c \in Callers :
        QueryStep(c) =>
            /\ session' # <<>>
            /\ sent'[c] = <<[csrf |-> session'[1].csrf,
                             updateFact |-> session'[1].updateFact,
                             cookies |-> session'[1].cookies]>>

C7_SessionIsOneUnit == [](C7_OneUnit) /\ [][C7_SentFromSessionInPlace]_vars

(* the second session is in place, entire, while a query sent under the    *)
(* first one is still in flight with the first one's credentials           *)
C7_Witness ==
    /\ session # <<>>
    /\ session[1].csrf = 2
    /\ session[1].cookies = 2
    /\ \E c \in Callers : sent[c] = <<[csrf |-> 1, updateFact |-> 1, cookies |-> 1]>>

(* C8: a getStatus call for a pair whose cache entry is unexpired returns  *)
(* the cached payload at once: no directory-page fetch, no status query,   *)
(* no change to the session or the refresh handle, whatever the state of   *)
(* the session.                                                            *)
C8_CacheHitNeedsNoSession ==
    [][\A c \in Callers : \A p \in Pairs :
        LET key == CacheKey(p[1], p[2]) IN
        (/\ CallStep(c)
         /\ req'[c] = Request("getStatus", p[1], p[2])
         /\ statusCache[key] # <<>>
         /\ now < statusCache[key][1].expiresAt) =>
            /\ pc'[c] = "done"
            /\ result'[c] = <<Ok(statusCache[key][1].data)>>
            /\ sent'[c] = <<>>
            /\ \A d \in Callers : ~QueryStep(d)
            /\ fetchCount' = fetchCount
            /\ fetching' = fetching
            /\ sessionRefreshPromise' = sessionRefreshPromise
            /\ session' = session
            /\ sessionExpiresAt' = sessionExpiresAt
    ]_vars

(* a getStatus was answered from the cache while the session had expired   *)
(* and no refresh was running                                              *)
C8_Witness ==
    /\ \E c \in Callers :
        /\ cacheHit[c]
        /\ pc[c] = "done"
        /\ result[c] # <<>>
        /\ result[c][1].kind = "ok"
    /\ session # <<>>
    /\ now >= sessionExpiresAt
    /\ fetching = {}

(* C9: the entry written under a key expires 10 minutes after the write;   *)
(* it stays in the cache until a lookup finds it expired; a getStatus call *)
(* for the key made before the expiry is served the entry, and one made at *)
(* or after the expiry is not served from the cache and goes on to the     *)
(* network (the refresh or the status query).                              *)
C9_TenMinuteEntries ==
    [][/\ \A k \in Keys :
            /\ (statusCache'[k] # <<>> /\ statusCache'[k] # statusCache[k]) =>
                    statusCache'[k][1].expiresAt = now + TenMinutes
            /\ (statusCache[k] # <<>> /\ statusCache'[k] = <<>>) =>
                    now >= statusCache[k][1].expiresAt
       /\ \A c \in Callers :
            (CallStep(c) /\ req'[c].op = "getStatus") =>
                LET key == CacheKey(req'[c].city, req'[c].street) IN
                IF statusCache[key] # <<>> /\ now < statusCache[key][1].expiresAt
                THEN /\ cacheHit'[c]
                     /\ result'[c] = <<Ok(statusCache[key][1].data)>>
                ELSE /\ ~cacheHit'[c]
                     /\ result'[c] = <<>>
                     /\ pc'[c] \in {"ensureSession", "fetchBuildingStatuses"}
    ]_vars

(* a getStatus was answered from an entry written five minutes earlier *)
C9_Witness ==
    \E c \in Callers :
        LET key == CacheKey(req[c].city, req[c].street) IN
        /\ cacheHit[c]
        /\ statusCache[key] # <<>>
        /\ result[c] = <<Ok(statusCache[key][1].data)>>
        /\ statusCache[key][1].expiresAt = now + TenMinutes - TickMs

(* C10: a payload served from the cache is the payload of the pair the     *)
(* call asked about.                                                       *)
C10_KeyedByPair ==
    \A c \in Callers :
        (cacheHit[c] /\ result[c] # <<>>) =>
            /\ result[c][1].value.city = req[c].city
            /\ result[c][1].value.street = req[c].street

(* the status queries in flight for the pair <<city, street>> *)
QueriesInFlight(city, street) ==
    {c \in Callers : /\ pc[c] = "fetchBuildingStatuses"
                     /\ req[c].city = city
                     /\ req[c].street = street}

(* C11: status queries are not coalesced.  A getStatus call that misses    *)
(* the cache while the session is valid issues its own status query,       *)
(* whether or not queries for the same pair are already in flight, and     *)
(* leaves those in flight: the queries in flight for the pair grow by one. *)
C11_NotCoalesced ==
    [][\A c \in Callers : \A p \in Pairs :
        LET key == CacheKey(p[1], p[2]) IN
        (/\ CallStep(c)
         /\ req'[c] = Request("getStatus", p[1], p[2])
         /\ ~(statusCache[key] # <<>> /\ now < statusCache[key][1].expiresAt)
         /\ session # <<>>
         /\ now < sessionExpiresAt) =>
            /\ pc'[c] = "fetchBuildingStatuses"
            /\ QueriesInFlight(p[1], p[2])' = QueriesInFlight(p[1], p[2]) \cup {c}
            /\ \A d \in QueriesInFlight(p[1], p[2]) \ {c} : sent'[d] = sent[d]
    ]_vars

(* two status queries for one pair are in flight at once *)
C11_Witness ==
    \E p \in Pairs : Cardinality(QueriesInFlight(p[1], p[2])) >= 2

----------------------------------------------------------------------------
(* the objects the registry holds an entry for *)
Registered == {r \in Regions : serviceRegistry[r] # <<>>}

C12_OnePerRegion ==
    /\ \A r \in Registered :
        /\ serviceRegistry[r][1] \in 1..Len(services)
        /\ services[serviceRegistry[r][1]].regionCode = r
    /\ \A r1, r2 \in Registered : r1 # r2 => serviceRegistry[r1] # serviceRegistry[r2]
    /\ Len(services) = Cardinality(Registered)

C12_Frame ==
    /\ \A r \in Registered : serviceRegistry'[r] = serviceRegistry[r]
    /\ regionOfCall' \in Registered'
    /\ \A i \in 1..Len(services) :
        services'[i] # services[i] => services[i].regionCode = regionOfCall'
    /\ \A r \in Registered' \ Registered : r = regionOfCall'

(* C12: the registry holds one object per region: every lookup with a      *)
(* region code yields the object created for that code at its first        *)
(* lookup, objects of distinct codes are distinct, and a call made for one *)
(* region changes the session, the refresh handle and the status cache of  *)
(* that region's object only, and creates an entry for that region only.   *)
C12_RegionsIsolated == [](C12_OnePerRegion) /\ [][C12_Frame]_vars

(* two regions' objects differ in session, refresh handle and cache *)
C12_Witness ==
    \E r1, r2 \in Registered :
        LET a == services[serviceRegistry[r1][1]]
            b == services[serviceRegistry[r2][1]]
        IN  /\ r1 # r2
            /\ a.session # <<>>
            /\ a.statusCache # EmptyCache
            /\ b.session = <<>>
            /\ b.sessionRefreshPromise = "pending"
            /\ b.statusCache = EmptyCache

----------------------------------------------------------------------------
(* withRetry: vocabulary *)

RetrySettled == retry.pc \in {"returned", "threw"}

Failed(o) == o.kind \in {"fail", "throw"}

(* the calls of one kind in the log *)
CallsOf(what) == {p \in DOMAIN log : log[p].what = what}

Exhausted ==
    /\ retry.pc = "returned"
    /\ ~retry.result[1].ok
    /\ retry.result[1].error.code = "RETRY_EXHAUSTED"

(* C13: fn is invoked at most delays.length + 1 times, and when every      *)
(* attempt has failed by the time withRetry settles, it has been invoked   *)
(* exactly delays.length + 1 times and the result is RETRY_EXHAUSTED with  *)
(* attempts = delays.length + 1.                                           *)
C13_ExhaustsAfterAllAttempts ==
    /\ Cardinality(CallsOf("fn")) <= Len(delays) + 1
    /\ (RetrySettled /\ \A k \in DOMAIN outcomes : Failed(outcomes[k])) =>
        /\ Cardinality(CallsOf("fn")) = Len(delays) + 1
        /\ Exhausted
        /\ retry.result[1].error.attempts = Len(delays) + 1

(* C14: an invocation of fn that succeeds is the last one: withRetry has   *)
(* returned the success (the ok Result, or the plain value wrapped as ok), *)
(* fn has been invoked exactly k times, k - 1 sleeps have been made, and   *)
(* once withRetry has settled it makes no call at all.                     *)
C14_Returned ==
    \A k \in DOMAIN outcomes :
        outcomes[k].kind \in {"ok", "plain"} =>
            /\ k = Len(outcomes)
            /\ retry.pc = "returned"
            /\ retry.result = <<[ok |-> TRUE, value |-> outcomes[k].value,
                                 error |-> NoRetryError]>>
            /\ Cardinality(CallsOf("fn")) = k
            /\ Cardinality(CallsOf("sleep")) = k - 1
            /\ log[Len(log)] = RetryEvent("fn", k, "", 0)

C14_FirstSuccessReturns ==
    [](C14_Returned) /\ [][RetrySettled => UNCHANGED <<retry, log, outcomes>>]_vars

(* the second invocation returned undefined: ok(undefined) after two calls *)
C14_Witness ==
    /\ Len(outcomes) = 2
    /\ outcomes[1].kind = "throw"
    /\ outcomes[2] = FnOutcome("plain", "undefined", "")
    /\ retry.pc = "returned"
    /\ retry.result[1].ok

(* C15: a failure that fn throws and the same failure returned as a failed *)
(* Result are interchangeable: at every invocation of fn, the state        *)
(* withRetry is left in (attempt, error kept, result) and the calls it     *)
(* makes (observer, sleep) are the same for both.                          *)
C15_ThrowIsFailure ==
    retry.pc = "fn" =>
        \A e \in RetryErrors :
            AfterFn(retry, FnOutcome("fail", "", e), delays, onRetry)
                = AfterFn(retry, FnOutcome("throw", "", e), delays, onRetry)

(* a run in which the same error was returned once and thrown once *)
C15_Witness ==
    /\ Exhausted
    /\ Len(outcomes) = 2
    /\ outcomes[1] = FnOutcome("fail", "", "e1")
    /\ outcomes[2] = FnOutcome("throw", "", "e1")
    /\ Cardinality(CallsOf("onRetry")) = 1

(* C16: the lastError of a RETRY_EXHAUSTED failure is the error of the     *)
(* final attempt.                                                          *)
C16_LastErrorIsFinal ==
    Exhausted =>
        /\ Len(outcomes) = Len(delays) + 1
        /\ Failed(outcomes[Len(outcomes)])
        /\ retry.result[1].error.lastError = outcomes[Len(outcomes)].error

(* the earlier attempt failed with another error than the final one *)
C16_Witness ==
    /\ Exhausted
    /\ Len(outcomes) = 2
    /\ outcomes[1].error = "e1"
    /\ outcomes[2].error = "e2"
    /\ retry.result[1].error.lastError = "e2"

(* C17: the observer is called exactly once after each failed attempt that *)
(* is followed by a retry, directly after that attempt and before the      *)
(* sleep, with the attempt's 1-based number, its error and the delay about *)
(* to be waited; it is never called after a successful attempt or after    *)
(* the final attempt.                                                      *)
C17_ObserverCalls ==
    /\ \A p \in CallsOf("onRetry") :
        LET a == log[p].attempt IN
        /\ onRetry # "none"
        /\ p > 1
        /\ log[p - 1] = RetryEvent("fn", a, "", 0)
        /\ a \in DOMAIN outcomes
        /\ Failed(outcomes[a])
        /\ log[p].error = outcomes[a].error
        /\ a \in DOMAIN delays
        /\ log[p].delayMs = delays[a]
        /\ p < Len(log) => log[p + 1] = RetryEvent("sleep", a, "", delays[a])
        /\ \A q \in CallsOf("onRetry") : log[q].attempt = a => q = p
    /\ \A p \in CallsOf("sleep") :
        onRetry # "none" =>
            /\ p > 1
            /\ log[p - 1] = RetryEvent("onRetry", log[p].attempt,
                                       outcomes[log[p].attempt].error, log[p].delayMs)
    /\ \A a \in DOMAIN outcomes :
        (onRetry # "none" /\ Failed(outcomes[a]) /\ a \in DOMAIN delays) =>
            \E p \in CallsOf("onRetry") : log[p].attempt = a

(* the second of three attempts failed with e2 and was observed before the *)
(* second delay was waited                                                 *)
C17_Witness ==
    /\ delays = <<10, 20>>
    /\ onRetry = "returns"
    /\ Len(log) = 6
    /\ log[5] = RetryEvent("onRetry", 2, "e2", 20)
    /\ log[6] = RetryEvent("sleep", 2, "", 20)
    /\ outcomes[1].error = "e1"

(* C18: the observer has no effect on the control flow: whatever fn        *)
(* settles with, withRetry goes on as it does without an observer, the     *)
(* calls of the observer aside.                                            *)
C18_ObserverHasNoEffect ==
    retry.pc = "fn" =>
        \A o \in FnOutcomes :
            LET with == AfterFn(retry, o, delays, onRetry)
                without == AfterFn(retry, o, delays, "none")
                NotObserver(call) == call.what # "onRetry"
            IN  /\ with.state = without.state
                /\ SelectSeq(with.calls, NotObserver) = without.calls

(* -------- the compressor's claims: times are in half hours -------- *)

(* the ranges that cover the half hour starting at time t *)
Covering(t) == {i \in DOMAIN ranges : ranges[i].from <= t /\ t + 1 <= ranges[i].to}

(* the hour keys whose iteration has been made *)
Processed == 1 .. (hourKey - 1)

(* C19: the ranges of a day are in ascending time order and do not         *)
(* overlap, and no two consecutive ranges have both the same status and a  *)
(* shared boundary.                                                        *)
C19_RangesOrderedAndMerged ==
    /\ \A i \in DOMAIN ranges : ranges[i].from < ranges[i].to
    /\ \A i \in 1 .. (Len(ranges) - 1) :
        /\ ranges[i].to <= ranges[i + 1].from
        /\ ~(/\ ranges[i].to = ranges[i + 1].from
             /\ ranges[i].status = ranges[i + 1].status)

(* an hour merged with the half hour after it, a change of status at a     *)
(* shared boundary, and two ranges of one status on both sides of a gap    *)
C19_Witness ==
    /\ hourKey = LastHourKey + 1
    /\ dayData = <<"yes", "msecond", "", "maybe">>
    /\ ranges = <<ScheduleRange(0, 3, "yes"), ScheduleRange(3, 4, "maybe"),
                  ScheduleRange(6, 8, "maybe")>>

(* the status of half hour h (0 or 1) of an hour whose code is code *)
HalfHourStatus(code, h) ==
    IF code = "yes" THEN "yes"
    ELSE IF code = "maybe" THEN "maybe"
    ELSE IF code = "no" THEN "no"
    ELSE IF code = "mfirst" THEN (IF h = 0 THEN "maybe" ELSE "yes")
    ELSE IF code = "msecond" THEN (IF h = 0 THEN "yes" ELSE "maybe")
    ELSE IF code = "first" THEN (IF h = 0 THEN "no" ELSE "yes")
    ELSE (IF h = 0 THEN "yes" ELSE "no")

(* C20: for every hour key k in 1..24, [k-1, k) is covered by the ranges   *)
(* if and only if the grid has key k, and then each of its half hours is   *)
(* covered by one range, whose status is the normalized status of the code *)
(* for that half hour; an hour the grid lacks is a gap.  Hours whose       *)
(* iteration is still to come are not covered.                             *)
C20_HoursCovered ==
    \A k \in 1 .. LastHourKey : \A h \in {0, 1} :
        LET t == 2 * (k - 1) + h
            present == k \in DOMAIN dayData /\ dayData[k] # ""
        IN  IF k \in Processed /\ present
            THEN /\ Cardinality(Covering(t)) = 1
                 /\ \A i \in Covering(t) :
                        ranges[i].status = HalfHourStatus(dayData[k], h)
            ELSE Covering(t) = {}

(* a split hour, a missing hour and two full hours, all iterations made *)
C20_Witness ==
    /\ hourKey = LastHourKey + 1
    /\ dayData = <<"first", "", "maybe", "yes">>
    /\ ranges = <<ScheduleRange(0, 1, "no"), ScheduleRange(1, 2, "yes"),
                  ScheduleRange(4, 6, "maybe"), ScheduleRange(6, 8, "yes")>>

(* the codes that split an hour at the half hour *)
SplitCodes == {"mfirst", "msecond", "first", "second"}

(* C21 as stated: for every hour that carries a split code, the list holds *)
(* exactly the two ranges of that hour, each half an hour wide, with the   *)
(* statuses of the table.                                                  *)
C21_Original ==
    \A k \in Processed :
        (k \in DOMAIN dayData /\ dayData[k] \in SplitCodes) =>
            {ranges[i] : i \in {j \in DOMAIN ranges :
                                  /\ ranges[j].from < 2 * k
                                  /\ ranges[j].to > 2 * (k - 1)}}
                = {ScheduleRange(2 * (k - 1), 2 * (k - 1) + 1, HalfHourStatus(dayData[k], 0)),
                   ScheduleRange(2 * (k - 1) + 1, 2 * k, HalfHourStatus(dayData[k], 1))}

(* C21, amended: the iteration for an hour that carries a split code adds  *)
(* the two halves of the hour in order, with the statuses of the table:    *)
(* the second half as a new range half an hour wide at the end of the      *)
(* list, the first half as a new range half an hour wide before it, unless *)
(* the list ended at the hour's start with the first half's status, in     *)
(* which case that last range is extended by the half hour.                *)
C21_SplitHourAdded ==
    (Len(dayData') = Len(dayData) + 1 /\ dayData'[hourKey] \in SplitCodes) =>
        LET code == dayData'[hourKey]
            first == HalfHourStatus(code, 0)
            second == HalfHourStatus(code, 1)
            hourStart == 2 * (hourKey - 1)
            n == Len(ranges)
            merges == n > 0 /\ ranges[n].to = hourStart /\ ranges[n].status = first
        IN  /\ first # second
            /\ ranges'[Len(ranges')] = ScheduleRange(hourStart + 1, hourStart + 2, second)
            /\ IF merges
               THEN /\ Len(ranges') = n + 1
                    /\ ranges'[n] = [ranges[n] EXCEPT !.to = hourStart + 1]
                    /\ \A i \in 1 .. (n - 1) : ranges'[i] = ranges[i]
               ELSE /\ Len(ranges') = n + 2
                    /\ ranges'[n + 1] = ScheduleRange(hourStart, hourStart + 1, first)
                    /\ \A i \in 1 .. n : ranges'[i] = ranges[i]

C21_SplitHours == [][C21_SplitHourAdded]_vars

(* the first half of a split hour was merged into the hour before it *)
C21_Witness ==
    /\ dayData = <<"yes", "msecond">>
    /\ ranges = <<ScheduleRange(0, 3, "yes"), ScheduleRange(3, 4, "maybe")>>

(* the status a range list gives the half hour starting at t, "" in a gap *)
StatusAt(rs, t) ==
    LET covering == {i \in DOMAIN rs : rs[i].from <= t /\ t + 1 <= rs[i].to}
    IN  IF covering = {} THEN "" ELSE rs[CHOOSE i \in covering : TRUE].status

(* the code of an hour whose halves have the statuses first and second;    *)
(* "?" when no code says so                                                *)
CodeOf(first, second) ==
    IF first = second THEN first
    ELSE IF first = "maybe" /\ second = "yes" THEN "mfirst"
    ELSE IF first = "yes" /\ second = "maybe" THEN "msecond"
    ELSE IF first = "no" /\ second = "yes" THEN "first"
    ELSE IF first = "yes" /\ second = "no" THEN "second"
    ELSE "?"

(* a range list read as the hourly grid that says the same *)
GridOf(rs, hours) ==
    [k \in 1 .. hours |-> CodeOf(StatusAt(rs, 2 * (k - 1)), StatusAt(rs, 2 * (k - 1) + 1))]

(* a range list passed range by range through the merge rule *)
RECURSIVE Remerged(_, _, _)
Remerged(acc, rs, i) ==
    IF i > Len(rs) THEN acc
    ELSE Remerged(addRange(acc, rs[i].from, rs[i].to, rs[i].status), rs, i + 1)

(* C22: compression is idempotent.  The list compressed so far is the      *)
(* compression of the grid read so far; passing its ranges one by one      *)
(* through the merge rule again returns it, and so does compressing the    *)
(* hourly grid that it describes.                                          *)
C22_Idempotent ==
    /\ ranges = compressDaySchedule(dayData)
    /\ Remerged(<<>>, ranges, 1) = ranges
    /\ \A k \in DOMAIN dayData : GridOf(ranges, Len(dayData))[k] # "?"
    /\ compressDaySchedule(GridOf(ranges, Len(dayData))) = ranges

(* a list with merged ranges, half hours and a gap, and the grid it reads as *)
C22_Witness ==
    /\ hourKey = LastHourKey + 1
    /\ dayData = <<"msecond", "maybe", "", "first">>
    /\ ranges = <<ScheduleRange(0, 1, "yes"), ScheduleRange(1, 4, "maybe"),
                  ScheduleRange(6, 7, "no"), ScheduleRange(7, 8, "yes")>>
    /\ GridOf(ranges, 4) = <<"msecond", "maybe", "", "first">>

(* -------- the evaluator's claims -------- *)

(* a tree made solely of literals, array literals, object literals (whose  *)
(* properties have an identifier or a literal as key) and negations of a   *)
(* numeric literal                                                         *)
RECURSIVE OnlyLiterals(_)
OnlyLiterals(n) ==
    IF n.type = "Literal" THEN TRUE
    ELSE IF n.type = "ArrayExpression"
    THEN \A i \in DOMAIN n.kids : OnlyLiterals(n.kids[i])
    ELSE IF n.type = "ObjectExpression"
    THEN \A i \in DOMAIN n.kids :
            /\ n.kids[i].type = "Property"
            /\ \/ n.kids[i].kids[1].type = "Literal"
               \/ n.kids[i].kids[1].type = "Identifier" /\ ~n.kids[i].computed
            /\ OnlyLiterals(n.kids[i].kids[2])
    ELSE IF n.type = "UnaryExpression"
    THEN /\ n.name = "-"
         /\ n.kids[1].type = "Literal"
         /\ n.kids[1].value.tag = "number"
    ELSE FALSE

(* a tree some node of which is inside more than k array and object       *)
(* literals                                                                *)
RECURSIVE NestedBeyond(_, _)
NestedBeyond(n, k) ==
    \E i \in DOMAIN n.kids :
        IF n.type \in {"ArrayExpression", "ObjectExpression"}
        THEN k = 0 \/ NestedBeyond(n.kids[i], k - 1)
        ELSE NestedBeyond(n.kids[i], k)

(* C24: the evaluator succeeds only on trees made solely of literals,      *)
(* array literals, object literals and negations of a numeric literal: a   *)
(* tree with a node of another kind anywhere makes it fail.                *)
C24_OnlyLiteralTrees ==
    (evaluated # <<>> /\ evaluated[1].ok) => OnlyLiterals(node[1])

(* C25: the evaluator goes no deeper than MAX_AST_DEPTH levels, and a tree *)
(* nested more deeply makes it fail.                                       *)
C25_DepthBounded ==
    /\ \A j \in DOMAIN frames :
            \/ j - 1 <= MAX_AST_DEPTH
            \/ j - 1 = MAX_AST_DEPTH + 1 /\ frames[j].at = 0
    /\ (evaluated # <<>> /\ NestedBeyond(node[1], MAX_AST_DEPTH)) => ~evaluated[1].ok

(* C23: a page with no anti-forgery tag is answered with RegionUnavailable *)
(* when it contains a bot-protection marker and with ParseError (csrf)     *)
(* when it contains none.                                                  *)
C23_NoTagBotOrParseError ==
    (parsed # <<>> /\ html[1].csrf = <<>>) =>
        /\ parsed[1].kind = "err"
        /\ html[1].markers # {} => parsed[1].code = "REGION_UNAVAILABLE"
        /\ html[1].markers = {} => parsed[1].code = "PARSE_ERROR" /\ parsed[1].detail = "csrf"

(* a page with the marker SWJIYLWA alone and no tag, answered RegionUnavailable *)
C23_Witness ==
    /\ parsed # <<>>
    /\ html[1].csrf = <<>>
    /\ html[1].markers = {"SWJIYLWA"}
    /\ parsed[1].code = "REGION_UNAVAILABLE"

(* the token, streets and fact steps of a page succeed and the street map  *)
(* is a map of lists of strings                                            *)
OtherStepsSucceed(page) ==
    /\ page.csrf # <<>> /\ page.csrf # <<"">>
    /\ extractDisconScheduleDataHtml(page).kind = "ok"
    /\ \A i \in DOMAIN extractDisconScheduleDataHtml(page).value.streetsByCity.items :
        LET streets == extractDisconScheduleDataHtml(page).value.streetsByCity.items[i] IN
        /\ streets.tag = "array"
        /\ \A j \in DOMAIN streets.items : streets.items[j].tag = "string"

(* the preset assignment of a page is there, evaluates, and its data is a  *)
(* table group -> day -> hours, each an object                             *)
PresetAsExpected(page) ==
    /\ page.preset # <<>>
    /\ evalAst(page.preset[1], 0).ok
    /\ LET data == Get(evalAst(page.preset[1], 0).value, "data") IN
        /\ data.tag = "object"
        /\ \A g \in DOMAIN data.items :
            /\ data.items[g].tag = "object"
            /\ \A d \in DOMAIN data.items[g].items : data.items[g].items[d].tag = "object"

(* C26: when the token, streets and fact steps succeed, parseTemplate      *)
(* returns a snapshot, and a snapshot without a schedule table when the    *)
(* preset assignment is missing, not evaluable or not of the expected      *)
(* shape; it never fails or throws because of the preset.                  *)
C26_PresetNonFatal ==
    (parsed # <<>> /\ OtherStepsSucceed(html[1])) =>
        /\ parsed[1].kind = "ok"
        /\ ~PresetAsExpected(html[1]) => parsed[1].value.schedules = <<>>

RECURSIVE HeadersAbsorbed(_, _)
HeadersAbsorbed(jar, received) ==
    IF received = <<>> THEN <<>>
    ELSE IF Head(received).jar = jar
    THEN Head(received).headers \o HeadersAbsorbed(jar, Tail(received))
    ELSE HeadersAbsorbed(jar, Tail(received))

(* a Set-Cookie value names a cookie: there is a "=" in its first part,    *)
(* and not at its start                                                    *)
SetsCookie(header) == IndexOf(FirstPart(header), "=") > 1

NameSet(header) ==
    Trim(SubSeq(FirstPart(header), 1, IndexOf(FirstPart(header), "=") - 1))

ValueSet(header) ==
    Trim(SubSeq(FirstPart(header), IndexOf(FirstPart(header), "=") + 1, Len(FirstPart(header))))

(* header i is the last of the list that sets its cookie *)
SetsLast(headers, i) ==
    /\ SetsCookie(headers[i])
    /\ \A k \in DOMAIN headers :
            (k > i /\ SetsCookie(headers[k])) => NameSet(headers[k]) # NameSet(headers[i])

(* C28: after absorbing several header values with the same cookie name,   *)
(* in one call or across calls, a jar stores exactly one cookie of that    *)
(* name, with the value absorbed last.                                     *)
C28_LastValueOnly ==
    \A jar \in DOMAIN jarHeap :
        LET headers == HeadersAbsorbed(jar, exchanges) IN
        \A i \in DOMAIN headers :
            SetsLast(headers, i) =>
                /\ Cardinality({e \in DOMAIN jarHeap[jar] :
                                    jarHeap[jar][e].name = NameSet(headers[i])}) = 1
                /\ \A e \in DOMAIN jarHeap[jar] :
                        jarHeap[jar][e].name = NameSet(headers[i])
                            => jarHeap[jar][e].value = ValueSet(headers[i])

(* a jar that absorbed dtek-kem three times, twice in one call and once in *)
(* a later call, and stores the last value alone                           *)
C28_Witness ==
    \E jar \in DOMAIN jarHeap :
        /\ Len(exchanges) = 2
        /\ exchanges[1].jar = jar /\ exchanges[2].jar = jar
        /\ Len(exchanges[1].headers) = 2
        /\ \A i \in 1 .. 2 : NameSet(exchanges[1].headers[i]) = <<"dtek-", "kem">>
        /\ exchanges[1].headers[2] = <<" ", "dtek-", "kem", " ", "=", " ", "b", " ">>
        /\ Len(exchanges[2].headers) = 1
        /\ ValueSet(exchanges[2].headers[1]) = <<"a">>
        /\ jarHeap[jar] = <<[name |-> <<"dtek-", "kem">>, value |-> <<"a">>]>>

(* the cookies of a cookie header, as the receiving server splits it *)
RECURSIVE CookiesOf(_)
CookiesOf(text) ==
    IF text = <<>> THEN <<>>
    ELSE IF IndexOf(text, ";") = 0 THEN <<Trim(text)>>
    ELSE <<Trim(FirstPart(text))>> \o CookiesOf(SubSeq(text, IndexOf(text, ";") + 1, Len(text)))

NameOf(cookie) == SubSeq(cookie, 1, IndexOf(cookie, "=") - 1)

(* C29: every cookie of the cookie header of a status query has a name on  *)
(* the allow-list of the region of the query: it starts with that region's *)
(* session or anti-forgery cookie name, with the language cookie name or   *)
(* with one of the three bot-mitigation prefixes; none is the session or   *)
(* anti-forgery cookie of another region.                                  *)
C29_OnlyAllowListed ==
    query # <<>> =>
        \A i \in DOMAIN CookiesOf(query[1].cookie) :
            LET name == NameOf(CookiesOf(query[1].cookie)[i]) IN
            /\ \/ StartsWith(name, <<"dtek-", query[1].region>>)
               \/ StartsWith(name, <<"_csrf-", "dtek-", query[1].region>>)
               \/ StartsWith(name, <<"_language">>)
               \/ StartsWith(name, <<"visid_incap_">>)
               \/ StartsWith(name, <<"incap_ses_">>)
               \/ StartsWith(name, <<"incap_wrt_">>)
            /\ \A other \in JarRegions \ {query[1].region} :
                    /\ ~StartsWith(name, <<"dtek-", other>>)
                    /\ ~StartsWith(name, <<"_csrf-", "dtek-", other>>)

(* a query of kem whose jar holds PHPSESSID and the session cookie of kem, *)
(* sent with the latter alone                                              *)
C29_Witness ==
    /\ query # <<>>
    /\ query[1].region = "kem"
    /\ jarHeap[query[1].cookies] = <<[name |-> <<"PHPSESSID">>, value |-> <<"a", "=", "b">>],
                                     [name |-> <<"dtek-", "kem">>, value |-> <<"a">>]>>
    /\ query[1].cookie = <<"dtek-", "kem", "=", "a">>

(* a query of krem whose jar holds the session cookie of kem, sent with no *)
(* cookie                                                                  *)
C29_OtherRegionHeld ==
    /\ query # <<>>
    /\ query[1].region = "krem"
    /\ \E e \in DOMAIN jarHeap[query[1].cookies] :
            jarHeap[query[1].cookies][e].name = <<"dtek-", "kem">>
    /\ query[1].cookie = <<>>

(* the cookies a status query in flight was given all the responses before *)
(* it were absorbed into: each cookie set last under an allow-listed name  *)
(* is in the cookie header of the query                                    *)
QueryCarriesAbsorbed ==
    query # <<>> =>
        LET headers == HeadersAbsorbed(query[1].cookies, exchanges) IN
        \A i \in DOMAIN headers :
            (/\ SetsLast(headers, i)
             /\ \/ StartsWith(NameSet(headers[i]), <<"dtek-", query[1].region>>)
                \/ StartsWith(NameSet(headers[i]), <<"_csrf-", "dtek-", query[1].region>>)
                \/ StartsWith(NameSet(headers[i]), <<"_language">>)
                \/ StartsWith(NameSet(headers[i]), <<"visid_incap_">>)
                \/ StartsWith(NameSet(headers[i]), <<"incap_ses_">>)
                \/ StartsWith(NameSet(headers[i]), <<"incap_wrt_">>))
            => \E c \in DOMAIN CookiesOf(query[1].cookie) :
                    CookiesOf(query[1].cookie)[c]
                        = NameSet(headers[i]) \o <<"=">> \o ValueSet(headers[i])

(* a step keeps the jar of every session, unless it is a refresh, which    *)
(* installs a jar made by it, or clears the session; a query is given the  *)
(* jar of the session, and its response is absorbed by that jar            *)
JarKeptInPlace ==
    /\ \A region \in JarRegions :
            sessionJar'[region] \in {sessionJar[region], 0, Len(jarHeap) + 1}
    /\ Len(jarHeap') >= Len(jarHeap)
    /\ (query = <<>> /\ query' # <<>>) => query'[1].cookies = sessionJar[query'[1].region]
    /\ (query # <<>> /\ query' = <<>>) =>
            /\ exchanges'[Len(exchanges')].jar = query[1].cookies
            /\ \A jar \in DOMAIN jarHeap : jar # query[1].cookies => jarHeap'[jar] = jarHeap[jar]

(* C30: the cookies of the response to a status query are absorbed into    *)
(* the jar of the session the query was made with, and are in the cookie   *)
(* header (when allow-listed) of the next status query made with that      *)
(* session; the jar of a session is changed in place and replaced by a     *)
(* refresh only.                                                           *)
C30_AbsorbedInPlace == [](QueryCarriesAbsorbed) /\ [][JarKeptInPlace]_vars

(* the second status query of a session, carrying the cookie the response  *)
(* to the first one set                                                    *)
C30_Witness ==
    /\ query # <<>>
    /\ Len(exchanges) = 2
    /\ exchanges[1].jar = query[1].cookies
    /\ exchanges[1].headers = <<>>
    /\ exchanges[2].jar = query[1].cookies
    /\ exchanges[2].headers = <<<<"dtek-", "kem", "=", "a", ";", " ", "Path", "=", "/">>>>
    /\ sessionJar[query[1].region] = query[1].cookies
    /\ query[1].cookie = <<"dtek-", "kem", "=", "a">>

(* the status query of c settles in this step with an authentication       *)
(* failure (HTTP 401 or 403)                                               *)
LateAuthFailure(c) ==
    /\ pc[c] = "fetchBuildingStatuses"
    /\ pc'[c] = "done"
    /\ result'[c][1].code = "NETWORK_ERROR"
    /\ result'[c][1].httpStatus \in {401, 403}

(* C33: an authentication failure clears only the session whose            *)
(* credentials the failing query was sent with; a session installed while  *)
(* the query was in flight stays installed.                                *)
C33_ClearsOwnSessionOnly ==
    [][\A c \in Callers :
        (LateAuthFailure(c) /\ session # <<>> /\ session[1].cookies # sent[c][1].cookies) =>
            session' = session /\ sessionExpiresAt' = sessionExpiresAt
    ]_vars

(* C35: a call of refreshSession starts a directory-page fetch of its own, *)
(* also when a refresh is in flight at the call, and the session in place  *)
(* when it returns success comes from a fetch started by or after the call *)
(* (none that was in flight before it).                                    *)
C35_ForcesNewFetch ==
    [][\A c \in Callers :
        (CallStep(c) /\ req'[c].op = "refreshSession") =>
            /\ fetchCount' = fetchCount + 1
            /\ fetching' \ fetching = {fetchCount + 1}
    ]_vars

C31_StatusByCaseAlone ==
    response # <<>> =>
        LET code == response[1].of.code
            status == response[1].json.status
        IN  /\ code = "NETWORK_ERROR" => status = 503
            /\ code = "PARSE_ERROR" => status = 502
            /\ code = "SESSION_ERROR" =>
                    status = IF response[1].of.reason = "auth_failed" THEN 401 ELSE 503
            /\ code = "VALIDATION_ERROR" => status = 400
            /\ code = "REGION_UNAVAILABLE" => status = 503

(* a step that is a call of fetchStatus for the address id *)
FetchStatusCalled(id) ==
    storeCalls' = storeCalls + 1 /\ lastCall' = StoreCall("fetchStatus", id)

(* the requests of the address id that await the API *)
RequestsOf(id) == {r \in inFlight : r.id = id}

(* C32: fetchStatus calls the API only when the address has no entry, its  *)
(* entry is older than 5 minutes or its entry records an error; with a     *)
(* fresh, error-free entry it makes no API call and leaves the entry as it *)
(* is.                                                                     *)
C32_FetchesOnlyWhenNeeded ==
    [][\A id \in AddressIds :
        FetchStatusCalled(id) =>
            LET entry == addressCache[id]
                needed == \/ entry = <<>>
                          \/ storeNow - entry[1].fetchedAt > 5 * 60 * 1000
                          \/ entry[1].error # <<>>
            IN  /\ inFlight' # inFlight => needed
                /\ ~needed => inFlight' = inFlight /\ addressCache' = addressCache
      ]_vars

C32_Witness ==
    \E id \in AddressIds :
        /\ lastCall = StoreCall("fetchStatus", id)
        /\ writer[id] \notin {0, storeCalls}
        /\ inFlight = {}
        /\ addressCache[id] # <<>>
        /\ addressCache[id][1].error = <<>>
        /\ storeNow - addressCache[id][1].fetchedAt = 5 * 60 * 1000

(* C37: the loading flag of the entry of an address is true while at least *)
(* one fetchStatus or refreshStatus of that address is in flight, and      *)
(* false once all of them have settled.                                    *)
C37_LoadingWhileInFlight ==
    \A id \in AddressIds :
        addressCache[id] # <<>> =>
            (addressCache[id][1].loading <=> RequestsOf(id) # {})

(* C38: a fetchStatus or refreshStatus that fails leaves the status and    *)
(* the fetchedAt of the entry of its address as they were, also when       *)
(* another request of the address has succeeded since it started.          *)
C38_FailureKeepsData ==
    [][\A r \in inFlight :
        (/\ r \notin inFlight'
         /\ addressCache[r.id] # <<>>
         /\ addressCache'[r.id] # <<>>
         /\ addressCache'[r.id][1].error # <<>>) =>
            /\ addressCache'[r.id][1].status = addressCache[r.id][1].status
            /\ addressCache'[r.id][1].fetchedAt = addressCache[r.id][1].fetchedAt
      ]_vars

(* C39: once invalidate(id) has been called and every request of the      *)
(* address has settled, the entry of the address is absent or was written  *)
(* by a request that started after the invalidation.                       *)
C39_NothingOlderThanInvalidation ==
    \A id \in AddressIds :
        (invalidated[id] # <<>> /\ RequestsOf(id) = {}) =>
            \/ addressCache[id] = <<>>
            \/ writer[id] > invalidated[id][1]

(* C40: whenever the cities store is idle (not loading, no error, no       *)
(* region error) and fetched is true, its cities are the list returned for *)
(* its current region.                                                     *)
C40_CitiesOfCurrentRegion ==
    (/\ ~citiesState.loading
     /\ citiesState.error = <<>>
     /\ citiesState.regionError = <<>>
     /\ citiesState.fetched) =>
        citiesState.cities = CitiesOf(citiesState.region)

(* C34: an operation to which session establishment reported success finds *)
(* the session present when it reads it: getCities, getStreets and         *)
(* getStatus never return the failure 'Session is not available after      *)
(* refresh', whatever the interleaving of refreshes, authentication        *)
(* failures and manual refreshSession calls.                               *)
C34_SessionPresentWhenRead ==
    \A c \in Callers :
        returned[c] # <<"Session is not available after refresh">>

====
